---------------------------- MODULE Spec2Model ----------------------------
(***************************************************************************)
(* State-machine model of the sigil-registry request handlers              *)
(* (handlers.rs, handlers_patterns.rs, handlers_policies.rs, auth.rs).     *)
(*                                                                         *)
(* Every handler is cut at its await points on the database pool or the    *)
(* Redis connection: one action per await, together with the synchronous   *)
(* code that precedes it.  Requests run in a fixed number of slots; a slot *)
(* is free again as soon as its handler has returned, and the value it     *)
(* returned is kept in resp (the most recent response).                    *)
(*                                                                         *)
(* Strings that take part in prefix tests or in canonical messages are     *)
(* sequences of tokens, so that format!() is concatenation.                *)
(***************************************************************************)
EXTENDS Integers, Sequences, FiniteSets, TLC

VARIABLES
    cacheCfg,   \* AppState.cache: "none" (None), "up" (Some, store answers), "flaky" (Some, a call may fail)
    registry_key, \* AppState.registry_key: {} (None) or {k} (Some(k))
    dids,       \* table dids: set of rows
    cache,      \* Redis: set of entries, at most one per key
    patterns,   \* table scanner_patterns: sequence of rows, id = position
    policies,   \* table security_policies: sequence of rows, id = position
    votes,      \* table registry_votes: set of rows
    reqs,       \* slot -> the handler running in it and its position
    resp,       \* the response returned most recently
    revokeOks,  \* history: did -> number of revoke_did calls that returned success
    voteLog     \* history: (voter, kind, id) -> outcomes of the vote requests that reached the ledger insert

vars == <<cacheCfg, registry_key, dids, cache, patterns, policies, votes, reqs, resp, revokeOks, voteLog>>

\* ------------------------------------------------------------------ bounds

NSlots == 2
MaxPatterns == 2
MaxPolicies == 2
CountCap == 2
MaxAttempts == 2
TicksPerTtl == 3

\* const DID_CACHE_TTL_SECS: u64 = 300
DID_CACHE_TTL_SECS == 300

Slots == 1..NSlots

\* ------------------------------------------------------------------ strings

SigilPrefix == <<"did", ":", "sigil", ":">>

StartsWith(s, p) == Len(s) >= Len(p) /\ SubSeq(s, 1, Len(p)) = p

DidA == <<"did", ":", "sigil", ":", "a">>
DidB == <<"did", ":", "sigil", ":", "b">>
DidEx == <<"did", ":", "ex", ":", "alice">>

SigilDids == {DidA, DidB}
AllDids == {DidA, DidB, DidEx}

\* cache_key = format!("did:{}", did)
cache_key(did) == <<"did", ":">> \o did

\* ------------------------------------------------------------------ auth.rs

\* A public key text: what it decodes to, and which key pair it belongs to.
PK(n) == [form |-> "valid", id |-> n]

\* A signature text: what it decodes to, the key pair that produced it and
\* the exact message it was produced over.
Sign(n, m) == [form |-> "valid", by |-> n, over |-> m]

\* A verification that decodes the signature before it decodes the key.
verify_signature_signature_first(public_key_b64, message, signature_b64) ==
    IF signature_b64.form = "badb64" THEN "bad signature encoding"
    ELSE IF signature_b64.form = "badlen" THEN "signature must be 64 bytes"
    ELSE IF public_key_b64.form = "badb64" THEN "bad public key encoding"
    ELSE IF public_key_b64.form = "badlen" THEN "public key must be 32 bytes"
    ELSE IF public_key_b64.form = "offcurve" THEN "invalid public key"
    ELSE IF signature_b64.by = public_key_b64.id /\ signature_b64.over = message THEN "ok"
    ELSE "signature verification failed"

\* A verification that checks the signer and not the message signed.
verify_signature_any_message(public_key_b64, message, signature_b64) ==
    IF public_key_b64.form = "badb64" THEN "bad public key encoding"
    ELSE IF public_key_b64.form = "badlen" THEN "public key must be 32 bytes"
    ELSE IF public_key_b64.form = "offcurve" THEN "invalid public key"
    ELSE IF signature_b64.form = "badb64" THEN "bad signature encoding"
    ELSE IF signature_b64.form = "badlen" THEN "signature must be 64 bytes"
    ELSE IF signature_b64.by = public_key_b64.id THEN "ok"
    ELSE "signature verification failed"

verify_signature(public_key_b64, message, signature_b64) ==
    IF public_key_b64.form = "badb64" THEN "bad public key encoding"
    ELSE IF public_key_b64.form = "badlen" THEN "public key must be 32 bytes"
    ELSE IF public_key_b64.form = "offcurve" THEN "invalid public key"
    ELSE IF signature_b64.form = "badb64" THEN "bad signature encoding"
    ELSE IF signature_b64.form = "badlen" THEN "signature must be 64 bytes"
    ELSE IF signature_b64.by = public_key_b64.id /\ signature_b64.over = message THEN "ok"
    ELSE "signature verification failed"

\* A builder that puts the category before the name.
pattern_message_reordered(name, category, pattern, author_did) ==
    <<"sigil-registry", ":", "pattern", ":">> \o category \o <<":">> \o name
        \o <<":">> \o pattern \o <<":">> \o author_did

\* format!("sigil-registry:pattern:{name}:{category}:{pattern}:{author_did}")
pattern_message(name, category, pattern, author_did) ==
    <<"sigil-registry", ":", "pattern", ":">> \o name \o <<":">> \o category
        \o <<":">> \o pattern \o <<":">> \o author_did

\* format!("sigil-registry:policy:{tool_name}:{risk_level}:{requires_trust}:{author_did}")
policy_message(tool_name, risk_level, requires_trust, author_did) ==
    <<"sigil-registry", ":", "policy", ":">> \o tool_name \o <<":">> \o risk_level
        \o <<":">> \o requires_trust \o <<":">> \o author_did

\* A vote message that leaves the target id out.
vote_message_untargeted(target_type, target_id, vote, voter_did) ==
    <<"sigil-registry", ":", "vote", ":">> \o target_type \o <<":">> \o vote
        \o <<":">> \o voter_did

\* format!("sigil-registry:vote:{target_type}:{target_id}:{vote}:{voter_did}")
vote_message(target_type, target_id, vote, voter_did) ==
    <<"sigil-registry", ":", "vote", ":">> \o target_type \o <<":">> \o target_id
        \o <<":">> \o vote \o <<":">> \o voter_did

\* ------------------------------------------------------------------ state helpers

Idle == [op |-> "none", pc |-> "idle"]

NoBody == [status |-> "", public_key |-> PK(0), revoked_at |-> ""]

\* The response a handler returns: the operation, the identity or entry it
\* was about, the result (Ok or the RegistryError variant), the body of a
\* resolve, and what the request saw when it arrived (flags).
Reply(op, subject, result, body, flags) ==
    resp' = [op |-> op, subject |-> subject, result |-> result, body |-> body, flags |-> flags]

Return(r) == reqs' = [reqs EXCEPT ![r] = Idle]

Goto(r, slot) == reqs' = [reqs EXCEPT ![r] = slot]

Bump(n) == IF n < CountCap THEN n + 1 ELSE CountCap

\* SELECT ... FROM dids WHERE did = $1
DidRows(did) == {row \in dids : row.did = did}

KeysOfAnyStatus(did) == {row.public_key : row \in DidRows(did)}

\* The key of an identity as the cache reports it.
ActiveKeysFromCache(did) ==
    {e.value.public_key : e \in {x \in cache : /\ x.key = cache_key(did) /\ x.valid
                                                /\ x.value.status = "active"}}

\* SELECT public_key FROM dids WHERE did = $1 AND status = 'active'
ActiveKeys(did) == {row.public_key : row \in {x \in DidRows(did) : x.status = "active"}}

\* impl From<DidDocument> for ResolveResponse
ResolveResponse(row) ==
    [status |-> row.status, public_key |-> row.public_key, revoked_at |-> row.revoked_at]

CacheEntries(key) == {e \in cache : e.key = key}

Kinds == {"pattern", "policy"}

\* The ids a vote request can name: those of the rows the tables can hold, and one more.
VoteIds == 1..(MaxPatterns + 1)

Triples == SigilDids \X Kinds \X VoteIds

\* voteLog holds a triple once a request has run the ledger insert for it.
VoteLogOf(t) == IF t \in DOMAIN voteLog THEN voteLog[t] ELSE [ins |-> 0, ok |-> 0, dup |-> 0]

Logged(t, entry) == [x \in DOMAIN voteLog \cup {t} |-> IF x = t THEN entry ELSE voteLog[x]]

\* std::env::var("REGISTRY_KEY").ok()
RegistryKeys == {{}, {<<"k1">>}}

Init ==
    /\ cacheCfg \in {"none", "up", "flaky"}
    /\ registry_key \in RegistryKeys
    /\ dids = {}
    /\ cache = {}
    /\ patterns = <<>>
    /\ policies = <<>>
    /\ votes = {}
    /\ reqs = [r \in Slots |-> Idle]
    /\ resp = [op |-> "none", subject |-> <<>>, result |-> "none", body |-> NoBody, flags |-> {}]
    /\ revokeOks = [d \in SigilDids |-> 0]
    /\ voteLog = <<>>

\* ------------------------------------------------------------------ handlers.rs: health

\* A health report that depends on whether a cache is configured.
HealthBodyByCache ==
    [status |-> IF cacheCfg = "none" THEN "degraded" ELSE "ok", service |-> "sigil-registry"]

\* json!({"status": "ok", "service": "sigil-registry", "version": ...})
HealthBody == [status |-> "ok", service |-> "sigil-registry"]

\* health takes no state and awaits nothing: one step.
Health ==
    /\ Reply("health", <<>>, "Ok", HealthBody, {})
    /\ UNCHANGED <<cacheCfg, registry_key, dids, cache, patterns, policies, votes, reqs,
                   revokeOks, voteLog>>

\* ------------------------------------------------------------------ handlers.rs: resolve_did

\* What the request saw when it arrived: whether a revoke_did of the same
\* identity had already returned success, and whether that revoke was the
\* response immediately before it with no other request running.
ArrivalFlags(r, did) ==
    (IF revokeOks[did] > 0 THEN {"afterRevoke"} ELSE {})
    \cup (IF /\ \A q \in Slots : reqs[q] = Idle
             /\ resp.op = "revoke_did" /\ resp.subject = did /\ resp.result = "Ok"
          THEN {"nextAfterRevoke"} \cup (resp.flags \cap {"hadCache", "delOk", "delFailed"})
          ELSE {})

CacheableAnyStatus(status) == TRUE

\* if resp.status == "active"
Cacheable(status) == status = "active"

\* The database read and what follows it up to the next await.
ResolveFromDb(r, did, flags) ==
    IF DidRows(did) = {}
    THEN /\ Reply("resolve_did", did, "NotFound", NoBody, flags)
         /\ Return(r)
    ELSE \E row \in DidRows(did) :
            IF Cacheable(ResolveResponse(row).status) /\ cacheCfg # "none"
            THEN /\ Goto(r, [op |-> "resolve_did", pc |-> "cache_set", did |-> did,
                             body |-> ResolveResponse(row), flags |-> flags])
                 /\ UNCHANGED resp
            ELSE /\ Reply("resolve_did", did, "Ok", ResolveResponse(row), flags)
                 /\ Return(r)

ResolveBegin(r, did) ==
    /\ reqs[r] = Idle
    /\ LET flags == ArrivalFlags(r, did) IN
       \/ /\ cacheCfg = "none"
          /\ ResolveFromDb(r, did, flags)
       \/ /\ cacheCfg # "none"
          /\ \E e \in CacheEntries(cache_key(did)) :
                /\ e.valid
                /\ Reply("resolve_did", did, "Ok", e.value, flags)
                /\ Return(r)
       \/ /\ cacheCfg # "none"
          /\ \A e \in CacheEntries(cache_key(did)) : ~e.valid
          /\ Goto(r, [op |-> "resolve_did", pc |-> "db_read", did |-> did,
                      flags |-> flags \cup (IF CacheEntries(cache_key(did)) # {}
                                            THEN {"corrupt"} ELSE {})])
          /\ UNCHANGED resp
       \/ /\ cacheCfg = "flaky"
          /\ Goto(r, [op |-> "resolve_did", pc |-> "db_read", did |-> did,
                      flags |-> flags \cup {"getError"}])
          /\ UNCHANGED resp
    /\ UNCHANGED <<cacheCfg, registry_key, dids, cache, patterns, policies, votes, revokeOks, voteLog>>

\* A database read that reports the cache fault that led to it.
ResolveDbReadSurfacingFault(r) ==
    /\ reqs[r].op = "resolve_did" /\ reqs[r].pc = "db_read"
    /\ Reply("resolve_did", reqs[r].did, "Internal", NoBody, reqs[r].flags)
    /\ Return(r)
    /\ UNCHANGED <<cacheCfg, registry_key, dids, cache, patterns, policies, votes, revokeOks, voteLog>>

\* The database read of a request that did not return from the cache.
ResolveDbRead(r) ==
    /\ reqs[r].op = "resolve_did" /\ reqs[r].pc = "db_read"
    /\ ResolveFromDb(r, reqs[r].did, reqs[r].flags)
    /\ UNCHANGED <<cacheCfg, registry_key, dids, cache, patterns, policies, votes, revokeOks, voteLog>>

ResolveCacheSet(r) ==
    /\ reqs[r].op = "resolve_did" /\ reqs[r].pc = "cache_set"
    /\ LET key == cache_key(reqs[r].did) IN
       \/ /\ cache' = (cache \ CacheEntries(key))
                        \cup {[key |-> key, valid |-> TRUE, value |-> reqs[r].body, age |-> 0]}
          /\ Reply("resolve_did", reqs[r].did, "Ok", reqs[r].body, reqs[r].flags)
       \/ /\ cacheCfg = "flaky"
          /\ cache' = cache
          /\ Reply("resolve_did", reqs[r].did, "Ok", reqs[r].body, reqs[r].flags \cup {"setError"})
    /\ Return(r)
    /\ UNCHANGED <<cacheCfg, registry_key, dids, patterns, policies, votes, revokeOks, voteLog>>

\* ------------------------------------------------------------------ handlers.rs: register_did

\* A duplicate check that looks at active records only.
DidExistsActive(did) == ActiveKeys(did) # {}

\* SELECT EXISTS(SELECT 1 FROM dids WHERE did = $1)
DidExists(did) == DidRows(did) # {}

RegisterBegin(r, did, public_key) ==
    /\ reqs[r] = Idle
    /\ IF ~StartsWith(did, SigilPrefix)
       THEN /\ Reply("register_did", did, "InvalidDid", NoBody, {})
            /\ Return(r)
       ELSE IF DidExists(did)
       THEN /\ Reply("register_did", did, "Conflict", NoBody, {})
            /\ Return(r)
       ELSE /\ Goto(r, [op |-> "register_did", pc |-> "insert", did |-> did,
                        public_key |-> public_key])
            /\ UNCHANGED resp
    /\ UNCHANGED <<cacheCfg, registry_key, dids, cache, patterns, policies, votes, revokeOks, voteLog>>

\* The dids table is keyed on did: an INSERT of a did the table holds fails.
DidKeyFree(did) == DidRows(did) = {}

InsertedDid(did, public_key) ==
    [did |-> did, public_key |-> public_key, status |-> "active", revoked_at |-> "null"]

\* INSERT INTO dids (did, public_key, namespace, label) VALUES ($1, $2, $3, $4)
InsertDid(did, public_key) ==
    IF DidKeyFree(did) THEN dids \cup {InsertedDid(did, public_key)} ELSE dids

RegisterInsert(r) ==
    /\ reqs[r].op = "register_did" /\ reqs[r].pc = "insert"
    /\ dids' = InsertDid(reqs[r].did, reqs[r].public_key)
    /\ IF DidKeyFree(reqs[r].did)
       THEN Reply("register_did", reqs[r].did, "Ok", NoBody, {})
       ELSE Reply("register_did", reqs[r].did, "Database", NoBody, {})
    /\ Return(r)
    /\ UNCHANGED <<cacheCfg, registry_key, cache, patterns, policies, votes, revokeOks, voteLog>>

\* ------------------------------------------------------------------ handlers.rs: revoke_did

\* A revoke whose update is not conditional on the status.
RevokeTargetsAnyStatus(did) == DidRows(did)

\* UPDATE dids SET status = 'revoked', revoked_at = NOW() WHERE did = $1 AND status = 'active'
RevokeTargets(did) == {row \in DidRows(did) : row.status = "active"}

\* A revoke that deletes the record.
RevokeDelete(did) == dids \ RevokeTargets(did)

\* A revoke that sets the status and leaves revoked_at.
RevokeUpdateStatusOnly(did) ==
    (dids \ RevokeTargets(did))
        \cup {[row EXCEPT !.status = "revoked"] : row \in RevokeTargets(did)}

RevokeUpdate(did) ==
    (dids \ RevokeTargets(did))
        \cup {[row EXCEPT !.status = "revoked", !.revoked_at = "set"] : row \in RevokeTargets(did)}

RevokeBegin(r, did) ==
    /\ reqs[r] = Idle
    /\ dids' = RevokeUpdate(did)
    /\ LET flags == IF \E e \in CacheEntries(cache_key(did)) : e.valid /\ e.value.status = "active"
                    THEN {"hadCache"} ELSE {} IN
       IF Cardinality(RevokeTargets(did)) = 0
       THEN /\ Reply("revoke_did", did, "NotFound", NoBody, flags)
            /\ Return(r)
            /\ UNCHANGED revokeOks
       ELSE IF cacheCfg = "none"
       THEN /\ Reply("revoke_did", did, "Ok", NoBody, flags)
            /\ Return(r)
            /\ revokeOks' = [revokeOks EXCEPT ![did] = Bump(@)]
       ELSE /\ Goto(r, [op |-> "revoke_did", pc |-> "cache_del", did |-> did, flags |-> flags])
            /\ UNCHANGED <<resp, revokeOks>>
    /\ UNCHANGED <<cacheCfg, registry_key, cache, patterns, policies, votes, voteLog>>

\* A delete that removes nothing.
CacheDelNothing(key) == cache

\* cache.del(&cache_key)
CacheDel(key) == cache \ CacheEntries(key)

RevokeCacheDel(r) ==
    /\ reqs[r].op = "revoke_did" /\ reqs[r].pc = "cache_del"
    /\ \/ /\ cache' = CacheDel(cache_key(reqs[r].did))
          /\ Reply("revoke_did", reqs[r].did, "Ok", NoBody, reqs[r].flags \cup {"delOk"})
       \/ /\ cacheCfg = "flaky"
          /\ cache' = cache
          /\ Reply("revoke_did", reqs[r].did, "Ok", NoBody, reqs[r].flags \cup {"delFailed"})
    /\ revokeOks' = [revokeOks EXCEPT ![reqs[r].did] = Bump(@)]
    /\ Return(r)
    /\ UNCHANGED <<cacheCfg, registry_key, dids, patterns, policies, votes, voteLog>>

\* ------------------------------------------------------------------ handlers_patterns.rs: create_pattern

valid_categories == {<<"secret">>, <<"pii">>, <<"credential">>, <<"financial">>}
valid_severities == {<<"low">>, <<"medium">>, <<"high">>, <<"critical">>}

\* Option<T>: {} is None, {x} is Some(x).
unwrap_or(opt, default) == IF opt = {} THEN default ELSE CHOOSE x \in opt : TRUE

\* regex::Regex::new(&req.pattern): the nesting of groups must close.
RECURSIVE Depth(_, _)
Depth(p, d) ==
    IF d < 0 THEN d
    ELSE IF p = <<>> THEN d
    ELSE Depth(Tail(p), IF Head(p) = "(" THEN d + 1 ELSE IF Head(p) = ")" THEN d - 1 ELSE d)

RegexCompiles(p) == Depth(p, 0) = 0

InFlight(op) == {q \in Slots : reqs[q].op = op}

\* A duplicate check against the verified patterns only.
PatternNameExistsVerified(name) ==
    \E i \in 1..Len(patterns) : patterns[i].name = name /\ patterns[i].verified

PatternNameNeverExists(name) == FALSE

\* SELECT EXISTS(SELECT 1 FROM scanner_patterns WHERE name = $1 AND active = TRUE)
PatternNameExists(name) ==
    \E i \in 1..Len(patterns) : patterns[i].name = name /\ patterns[i].active

\* INSERT INTO scanner_patterns (name, ..., severity, author_did) ...: the
\* columns the statement does not name take the table's defaults.
EntryDefaults ==
    [downloads |-> 0, votes_up |-> 0, votes_down |-> 0, verified |-> FALSE, active |-> TRUE]

\* An INSERT that leaves description and replacement_hint out.
NewPatternRowBare(name, description, category, pattern, replacement_hint, severity, author_did) ==
    [name |-> name, description |-> {}, category |-> category, pattern |-> pattern,
     replacement_hint |-> {}, severity |-> severity,
     author_did |-> author_did, downloads |-> 0, votes_up |-> 0, votes_down |-> 0,
     verified |-> FALSE, active |-> TRUE]

NewPatternRow(name, description, category, pattern, replacement_hint, severity, author_did) ==
    [name |-> name, description |-> description, category |-> category, pattern |-> pattern,
     replacement_hint |-> replacement_hint, severity |-> severity,
     author_did |-> author_did, downloads |-> EntryDefaults.downloads,
     votes_up |-> EntryDefaults.votes_up, votes_down |-> EntryDefaults.votes_down,
     verified |-> EntryDefaults.verified, active |-> EntryDefaults.active]

CreatePatternBegin(r, req) ==
    /\ reqs[r] = Idle
    /\ LET severity == unwrap_or(req.severity, <<"high">>)
           author_key == ActiveKeys(req.author_did)
           message == pattern_message(req.name, req.category, req.pattern, req.author_did)
           flags == IF revokeOks[req.author_did] > 0 THEN {"afterRevoke"} ELSE {}
       IN
       IF req.category \notin valid_categories
       THEN /\ Reply("create_pattern", req.author_did, "Validation", NoBody, flags)
            /\ Return(r)
       ELSE IF severity \notin valid_severities
       THEN /\ Reply("create_pattern", req.author_did, "Validation", NoBody, flags)
            /\ Return(r)
       ELSE IF ~RegexCompiles(req.pattern)
       THEN /\ Reply("create_pattern", req.author_did, "Validation", NoBody, flags)
            /\ Return(r)
       ELSE IF author_key = {}
       THEN /\ Reply("create_pattern", req.author_did, "UnknownAuthor", NoBody, flags)
            /\ Return(r)
       ELSE \E public_key \in author_key :
            IF verify_signature(public_key, message, req.signature) # "ok"
            THEN /\ Reply("create_pattern", req.author_did, "InvalidSignature", NoBody,
                          flags \cup {verify_signature(public_key, message, req.signature)})
                 /\ Return(r)
            ELSE /\ Len(patterns) + Cardinality(InFlight("create_pattern")) < MaxPatterns
                 /\ Goto(r, [op |-> "create_pattern", pc |-> "dup_check", name |-> req.name,
                             description |-> req.description,
                             replacement_hint |-> req.replacement_hint,
                             category |-> req.category, pattern |-> req.pattern,
                             severity |-> severity, author_did |-> req.author_did,
                             seen |-> 0, flags |-> flags])
                 /\ UNCHANGED resp
    /\ UNCHANGED <<cacheCfg, registry_key, dids, cache, patterns, policies, votes, revokeOks, voteLog>>

\* The duplicate check; the request keeps the number of rows the table
\* held when it ran (seen).
CreatePatternDupCheck(r) ==
    /\ reqs[r].op = "create_pattern" /\ reqs[r].pc = "dup_check"
    /\ IF PatternNameExists(reqs[r].name)
       THEN /\ Reply("create_pattern", reqs[r].author_did, "Duplicate", NoBody, reqs[r].flags)
            /\ Return(r)
       ELSE /\ Goto(r, [reqs[r] EXCEPT !.pc = "insert", !.seen = Len(patterns)])
            /\ UNCHANGED resp
    /\ UNCHANGED <<cacheCfg, registry_key, dids, cache, patterns, policies, votes, revokeOks, voteLog>>

CreatePatternInsert(r) ==
    /\ reqs[r].op = "create_pattern" /\ reqs[r].pc = "insert"
    /\ patterns' = Append(patterns, NewPatternRow(reqs[r].name, reqs[r].description,
                                                  reqs[r].category, reqs[r].pattern,
                                                  reqs[r].replacement_hint, reqs[r].severity,
                                                  reqs[r].author_did))
    /\ Reply("create_pattern", reqs[r].author_did, "Ok", NoBody, reqs[r].flags)
    /\ Return(r)
    /\ UNCHANGED <<cacheCfg, registry_key, dids, cache, policies, votes, revokeOks, voteLog>>

\* ------------------------------------------------------------------ handlers_patterns.rs: get_bundle

\* A bundle of every active pattern, verified or not.
BundleRowsAnyActive == SelectSeq(patterns, LAMBDA p : p.active)

\* SELECT * FROM scanner_patterns WHERE active = TRUE AND verified = TRUE
\* (in table order: the ORDER BY category, name is not modelled)
BundleRows == SelectSeq(patterns, LAMBDA p : p.active /\ p.verified)

BundleEntry(p) ==
    [name |-> p.name, category |-> p.category, pattern |-> p.pattern, severity |-> p.severity]

GetBundleSelect(r) ==
    /\ reqs[r] = Idle
    /\ Goto(r, [op |-> "get_bundle", pc |-> "downloads", rows |-> BundleRows])
    /\ UNCHANGED <<cacheCfg, registry_key, dids, cache, patterns, policies, votes, resp,
                   revokeOks, voteLog>>

\* UPDATE scanner_patterns SET downloads = downloads + 1 WHERE active = TRUE AND verified = TRUE
GetBundleDownloads(r) ==
    /\ reqs[r].op = "get_bundle" /\ reqs[r].pc = "downloads"
    /\ patterns' = [i \in 1..Len(patterns) |->
                        IF patterns[i].active /\ patterns[i].verified
                        THEN [patterns[i] EXCEPT !.downloads = Bump(@)]
                        ELSE patterns[i]]
    /\ Reply("get_bundle", <<>>, "Ok",
             [count |-> Len(reqs[r].rows),
              patterns |-> [i \in 1..Len(reqs[r].rows) |-> BundleEntry(reqs[r].rows[i])]], {})
    /\ Return(r)
    /\ UNCHANGED <<cacheCfg, registry_key, dids, cache, policies, votes, revokeOks, voteLog>>

\* ------------------------------------------------------------------ handlers_policies.rs: create_policy

valid_risks == {<<"low">>, <<"medium">>, <<"high">>, <<"critical">>}
valid_trusts == {<<"Low">>, <<"Medium">>, <<"High">>}

\* req.tool_name.trim().is_empty()
TrimIsEmpty(s) == \A i \in 1..Len(s) : s[i] = " "

NewPolicyRow(tool_name, risk_level, requires_trust, requires_confirmation, rationale, author_did) ==
    [tool_name |-> tool_name, risk_level |-> risk_level, requires_trust |-> requires_trust,
     requires_confirmation |-> requires_confirmation, rationale |-> rationale,
     author_did |-> author_did,
     votes_up |-> EntryDefaults.votes_up, votes_down |-> EntryDefaults.votes_down,
     verified |-> EntryDefaults.verified, active |-> EntryDefaults.active]

CreatePolicyBegin(r, req) ==
    /\ reqs[r] = Idle
    /\ LET author_key == ActiveKeys(req.author_did)
           message == policy_message(req.tool_name, req.risk_level, req.requires_trust,
                                     req.author_did)
           flags == IF revokeOks[req.author_did] > 0 THEN {"afterRevoke"} ELSE {}
       IN
       IF req.risk_level \notin valid_risks
       THEN /\ Reply("create_policy", req.author_did, "Validation", NoBody, flags)
            /\ Return(r)
       ELSE IF req.requires_trust \notin valid_trusts
       THEN /\ Reply("create_policy", req.author_did, "Validation", NoBody, flags)
            /\ Return(r)
       ELSE IF TrimIsEmpty(req.tool_name)
       THEN /\ Reply("create_policy", req.author_did, "Validation", NoBody, flags)
            /\ Return(r)
       ELSE IF author_key = {}
       THEN /\ Reply("create_policy", req.author_did, "UnknownAuthor", NoBody, flags)
            /\ Return(r)
       ELSE \E public_key \in author_key :
            IF verify_signature(public_key, message, req.signature) # "ok"
            THEN /\ Reply("create_policy", req.author_did, "InvalidSignature", NoBody,
                          flags \cup {verify_signature(public_key, message, req.signature)})
                 /\ Return(r)
            ELSE /\ Len(policies) + Cardinality(InFlight("create_policy")) < MaxPolicies
                 /\ Goto(r, [op |-> "create_policy", pc |-> "insert", tool_name |-> req.tool_name,
                             risk_level |-> req.risk_level, requires_trust |-> req.requires_trust,
                             requires_confirmation |-> unwrap_or(req.requires_confirmation, FALSE),
                             rationale |-> req.rationale,
                             author_did |-> req.author_did, flags |-> flags])
                 /\ UNCHANGED resp
    /\ UNCHANGED <<cacheCfg, registry_key, dids, cache, patterns, policies, votes, revokeOks, voteLog>>

\* An INSERT that stores nothing when the table holds an equal policy.
InsertPolicyUnlessPresent(row) ==
    IF \E i \in 1..Len(policies) : policies[i] = row THEN policies ELSE Append(policies, row)

\* INSERT INTO security_policies (...) VALUES (...) RETURNING id: the new
\* row's id is its position in the table.
InsertPolicy(row) == Append(policies, row)

CreatePolicyInsert(r) ==
    /\ reqs[r].op = "create_policy" /\ reqs[r].pc = "insert"
    /\ policies' = InsertPolicy(NewPolicyRow(reqs[r].tool_name, reqs[r].risk_level,
                                                 reqs[r].requires_trust,
                                                 reqs[r].requires_confirmation,
                                                 reqs[r].rationale, reqs[r].author_did))
    /\ Reply("create_policy", reqs[r].author_did, "Ok", NoBody, reqs[r].flags)
    /\ Return(r)
    /\ UNCHANGED <<cacheCfg, registry_key, dids, cache, patterns, votes, revokeOks, voteLog>>

\* ------------------------------------------------------------------ vote_pattern, vote_policy

Table(kind) == IF kind = "pattern" THEN patterns ELSE policies

\* id.to_string()
IdString(id) == <<ToString(id)>>

\* A vote handler that does not look the target up.
EntryExistsUnchecked(kind, id) == TRUE

\* SELECT EXISTS(SELECT 1 FROM <table> WHERE id = $1 AND active = TRUE)
EntryExists(kind, id) == id \in 1..Len(Table(kind)) /\ Table(kind)[id].active

\* The rows the ON CONFLICT (voter_did, target_type, target_id) clause collides with.
VoteRows(voter_did, kind, id) ==
    {v \in votes : v.voter_did = voter_did /\ v.target_type = kind /\ v.target_id = id}

\* UPDATE <table> SET {col} = {col} + 1 WHERE id = $1
Tally(table, id, vote) ==
    [i \in 1..Len(table) |->
        IF i # id THEN table[i]
        ELSE IF vote = <<"up">> THEN [table[i] EXCEPT !.votes_up = @ + 1]
        ELSE [table[i] EXCEPT !.votes_down = @ + 1]]

Voting(t) == {q \in Slots : /\ reqs[q].op = "vote"
                            /\ <<reqs[q].voter_did, reqs[q].kind, reqs[q].id>> = t}

VoteBegin(r, kind, id, req) ==
    /\ reqs[r] = Idle
    /\ LET voter_key == ActiveKeys(req.voter_did)
           message == vote_message(<<kind>>, IdString(id), req.vote, req.voter_did)
           flags == {kind} \cup {req.vote[i] : i \in 1..Len(req.vote)}
                       \cup (IF revokeOks[req.voter_did] > 0 THEN {"afterRevoke"} ELSE {})
           t == <<req.voter_did, kind, id>>
       IN
       IF req.vote # <<"up">> /\ req.vote # <<"down">>
       THEN /\ Reply("vote", req.voter_did, "InvalidVote", NoBody, flags)
            /\ Return(r)
       ELSE IF voter_key = {}
       THEN /\ Reply("vote", req.voter_did, "UnknownAuthor", NoBody, flags)
            /\ Return(r)
       ELSE \E public_key \in voter_key :
            IF verify_signature(public_key, message, req.signature) # "ok"
            THEN /\ Reply("vote", req.voter_did, "InvalidSignature", NoBody,
                          flags \cup {verify_signature(public_key, message, req.signature)})
                 /\ Return(r)
            ELSE /\ VoteLogOf(t).ins + Cardinality({q \in Voting(t) : reqs[q].pc # "tally"})
                        < MaxAttempts
                 /\ Goto(r, [op |-> "vote", pc |-> "check_target", kind |-> kind, id |-> id,
                             voter_did |-> req.voter_did, vote |-> req.vote, flags |-> flags])
                 /\ UNCHANGED resp
    /\ UNCHANGED <<cacheCfg, registry_key, dids, cache, patterns, policies, votes, revokeOks, voteLog>>

VoteCheckTarget(r) ==
    /\ reqs[r].op = "vote" /\ reqs[r].pc = "check_target"
    /\ IF ~EntryExists(reqs[r].kind, reqs[r].id)
       THEN /\ Reply("vote", reqs[r].voter_did, "ResourceNotFound", NoBody, reqs[r].flags)
            /\ Return(r)
       ELSE /\ Goto(r, [reqs[r] EXCEPT !.pc = "insert"])
            /\ UNCHANGED resp
    /\ UNCHANGED <<cacheCfg, registry_key, dids, cache, patterns, policies, votes, revokeOks, voteLog>>

\* An insert that replaces the row of the triple (ON CONFLICT ... DO UPDATE SET vote).
InsertVoteReplacing(voter_did, kind, id, vote) ==
    (votes \ {v \in votes : v.voter_did = voter_did /\ v.target_type = kind /\ v.target_id = id})
        \cup {[voter_did |-> voter_did, target_type |-> kind, target_id |-> id, vote |-> vote]}

InsertVoteAlways(voter_did, kind, id, vote) ==
    votes \cup {[voter_did |-> voter_did, target_type |-> kind, target_id |-> id, vote |-> vote]}

\* INSERT INTO registry_votes ... ON CONFLICT (voter_did, target_type, target_id) DO NOTHING
InsertVote(voter_did, kind, id, vote) ==
    IF VoteRows(voter_did, kind, id) # {}
    THEN votes
    ELSE votes \cup {[voter_did |-> voter_did, target_type |-> kind, target_id |-> id,
                      vote |-> vote]}

VoteOutcomeUnchecked(rows_affected) == "tally"

\* if result.rows_affected() == 0 { return Err(AppError::AlreadyVoted) }
VoteOutcome(rows_affected) == IF rows_affected = 0 THEN "AlreadyVoted" ELSE "tally"

VoteInsert(r) ==
    /\ reqs[r].op = "vote" /\ reqs[r].pc = "insert"
    /\ LET t == <<reqs[r].voter_did, reqs[r].kind, reqs[r].id>>
           rows_affected == Cardinality(InsertVote(reqs[r].voter_did, reqs[r].kind, reqs[r].id,
                                                   reqs[r].vote) \ votes)
       IN
       /\ votes' = InsertVote(reqs[r].voter_did, reqs[r].kind, reqs[r].id, reqs[r].vote)
       /\ IF VoteOutcome(rows_affected) = "AlreadyVoted"
          THEN /\ Reply("vote", reqs[r].voter_did, "AlreadyVoted", NoBody, reqs[r].flags)
               /\ Return(r)
               /\ voteLog' = Logged(t, [VoteLogOf(t) EXCEPT !.ins = @ + 1, !.dup = @ + 1])
          ELSE /\ Goto(r, [reqs[r] EXCEPT !.pc = "tally"])
               /\ voteLog' = Logged(t, [VoteLogOf(t) EXCEPT !.ins = @ + 1])
               /\ UNCHANGED resp
    /\ UNCHANGED <<cacheCfg, registry_key, dids, cache, patterns, policies, revokeOks>>

VoteTally(r) ==
    /\ reqs[r].op = "vote" /\ reqs[r].pc = "tally"
    /\ LET t == <<reqs[r].voter_did, reqs[r].kind, reqs[r].id>> IN
       /\ IF reqs[r].kind = "pattern"
          THEN /\ patterns' = Tally(patterns, reqs[r].id, reqs[r].vote)
               /\ UNCHANGED policies
          ELSE /\ policies' = Tally(policies, reqs[r].id, reqs[r].vote)
               /\ UNCHANGED patterns
       /\ Reply("vote", reqs[r].voter_did, "Ok", NoBody, reqs[r].flags)
       /\ voteLog' = Logged(t, [VoteLogOf(t) EXCEPT !.ok = @ + 1])
    /\ Return(r)
    /\ UNCHANGED <<cacheCfg, registry_key, dids, cache, votes, revokeOks>>

\* The counter UPDATE returns an error (.execute(&state.pool).await?): the
\* request answers Database, after its ledger row has been committed.
VoteTallyFail(r) ==
    /\ reqs[r].op = "vote" /\ reqs[r].pc = "tally"
    /\ Reply("vote", reqs[r].voter_did, "Database", NoBody, reqs[r].flags)
    /\ Return(r)
    /\ UNCHANGED <<cacheCfg, registry_key, dids, cache, patterns, policies, votes, revokeOks, voteLog>>

\* ------------------------------------------------------------------ the cache store

\* An entry written with SETEX expires DID_CACHE_TTL_SECS after the write.
CacheExpire(key) ==
    /\ CacheEntries(key) # {}
    /\ cache' = cache \ CacheEntries(key)
    /\ UNCHANGED <<cacheCfg, registry_key, dids, patterns, policies, votes, reqs, resp, revokeOks, voteLog>>

\* A store that keeps its entries however old they are (a SET without expiry).
ClockTickNoExpiry ==
    /\ cache # {}
    /\ cache' = {[e EXCEPT !.age = @ + (DID_CACHE_TTL_SECS \div TicksPerTtl)] : e \in cache}
    /\ UNCHANGED <<cacheCfg, registry_key, dids, patterns, policies, votes, reqs, resp, revokeOks, voteLog>>

\* SETEX key DID_CACHE_TTL_SECS value: the store drops an entry once it has
\* held it for DID_CACHE_TTL_SECS.  Time passes in steps of
\* DID_CACHE_TTL_SECS / TicksPerTtl seconds.
ClockTick ==
    /\ cache # {}
    /\ cache' = {[e EXCEPT !.age = @ + (DID_CACHE_TTL_SECS \div TicksPerTtl)] :
                    e \in {x \in cache : x.age + (DID_CACHE_TTL_SECS \div TicksPerTtl)
                                            < DID_CACHE_TTL_SECS}}
    /\ UNCHANGED <<cacheCfg, registry_key, dids, patterns, policies, votes, reqs, resp, revokeOks, voteLog>>

\* The value under a key is replaced by one that serde_json cannot read as
\* a ResolveResponse (written by something other than resolve_did).
CacheCorrupt(key) ==
    /\ \E e \in CacheEntries(key) : e.valid
    /\ cache' = {[e EXCEPT !.valid = (e.key # key /\ e.valid),
                           !.value = IF e.key = key THEN NoBody ELSE e.value] : e \in cache}
    /\ UNCHANGED <<cacheCfg, registry_key, dids, patterns, policies, votes, reqs, resp, revokeOks, voteLog>>

\* ------------------------------------------------------------------ specifications

\* The requests the environment sends.  A submission or a vote is signed by
\* key pair 1 or 2, over its own canonical message or over that of another
\* request.
RegisterRequests ==
    {[did |-> DidA, public_key |-> PK(1)], [did |-> DidA, public_key |-> PK(2)],
     [did |-> DidB, public_key |-> PK(1)], [did |-> DidEx, public_key |-> PK(1)]}

PatternRequest(name, category, pattern, severity, author_did, signer, signed_name) ==
    [name |-> name, description |-> {}, category |-> category, pattern |-> pattern,
     replacement_hint |-> {}, severity |-> severity,
     author_did |-> author_did,
     signature |-> Sign(signer, pattern_message(signed_name, category, pattern, author_did))]

\* Well-formed submissions of two names by A and of one by B signed by key
\* pair 1, one signed by key pair 2, one carrying the signature of another
\* name, and ones with a field out of its allow-list or an expression that
\* does not compile, signed by either key pair.
PatternRequests ==
    {PatternRequest(n, <<"secret">>, <<"foo">>, {}, DidA, 1, n) : n \in {<<"leak1">>, <<"leak2">>}}
    \cup {PatternRequest(<<"leak1">>, <<"secret">>, <<"foo">>, {}, DidB, 1, <<"leak1">>)}
    \cup {PatternRequest(<<"leak1">>, <<"secret">>, <<"foo">>, {}, DidA, 2, <<"leak1">>)}
    \cup {PatternRequest(<<"leak1">>, <<"secret">>, <<"foo">>, {<<"low">>}, DidA, 1, <<"leak2">>)}
    \cup {PatternRequest(<<"leak1">>, <<"Secret">>, <<"foo">>, {}, DidA, 2, <<"leak1">>)}
    \cup {PatternRequest(<<"leak1">>, <<"secret">>, <<"foo">>, {<<"severe">>}, DidA, 1, <<"leak1">>)}
    \cup {PatternRequest(<<"leak1">>, <<"secret">>, <<"(", "foo">>, {}, DidA, 1, <<"leak1">>)}

PolicyRequest(tool_name, risk_level, requires_trust, author_did, signer) ==
    [tool_name |-> tool_name, risk_level |-> risk_level, requires_trust |-> requires_trust,
     requires_confirmation |-> {}, rationale |-> {}, author_did |-> author_did,
     signature |-> Sign(signer, policy_message(tool_name, risk_level, requires_trust, author_did))]

PolicyRequests ==
    {PolicyRequest(<<"shell">>, <<"high">>, <<"High">>, DidA, k) : k \in {1, 2}}
    \cup {PolicyRequest(<<" ">>, <<"high">>, <<"High">>, DidA, 2),
          PolicyRequest(<<"shell">>, <<"extreme">>, <<"High">>, DidA, 1),
          PolicyRequest(<<"shell">>, <<"high">>, <<"high">>, DidA, 1)}

VoteRequest(voter_did, kind, id, vote, signer, signed_vote) ==
    [voter_did |-> voter_did, vote |-> vote,
     signature |-> Sign(signer, vote_message(<<kind>>, IdString(id), signed_vote, voter_did))]

\* Up and down votes signed by the voter's key pair 1, an up vote signed by
\* key pair 2, an up vote carrying the signature of a down vote, and a vote
\* of an unknown direction.
VoteRequests(voters, kind, id) ==
    {VoteRequest(x[1], kind, id, x[2], 1, x[2]) :
        x \in voters \X {<<"up">>, <<"down">>, <<"sideways">>}}
    \cup {VoteRequest(v, kind, id, <<"up">>, 2, <<"up">>) : v \in voters}
    \cup {VoteRequest(v, kind, id, <<"up">>, 1, <<"down">>) : v \in voters}

ResolveNext(ds) ==
    \/ \E r \in Slots, did \in ds : ResolveBegin(r, did)
    \/ \E r \in Slots : ResolveDbRead(r)
    \/ \E r \in Slots : ResolveCacheSet(r)
    \/ \E did \in ds : CacheExpire(cache_key(did))

RegisterNext(rs) ==
    \/ \E r \in Slots, q \in rs : RegisterBegin(r, q.did, q.public_key)
    \/ \E r \in Slots : RegisterInsert(r)

RevokeNext(ds) ==
    \/ \E r \in Slots, did \in ds : RevokeBegin(r, did)
    \/ \E r \in Slots : RevokeCacheDel(r)

PatternNext(ps) ==
    \/ \E r \in Slots, q \in ps : CreatePatternBegin(r, q)
    \/ \E r \in Slots : CreatePatternDupCheck(r)
    \/ \E r \in Slots : CreatePatternInsert(r)

PolicyNext(qs) ==
    \/ \E r \in Slots, q \in qs : CreatePolicyBegin(r, q)
    \/ \E r \in Slots : CreatePolicyInsert(r)

VoteNext(voters, ids) ==
    \/ \E r \in Slots, kind \in Kinds, id \in ids :
            \E q \in VoteRequests(voters, kind, id) : VoteBegin(r, kind, id, q)
    \/ \E r \in Slots : VoteCheckTarget(r)
    \/ \E r \in Slots : VoteInsert(r)
    \/ \E r \in Slots : VoteTally(r)

\* The identity directory and its cache: register, revoke, resolve.
NextDid ==
    \/ ResolveNext(SigilDids)
    \/ RegisterNext({q \in RegisterRequests : q.public_key = PK(1)})
    \/ RevokeNext(SigilDids)

\* A deployment without REGISTRY_KEY, with or without cache.
InitOpen == Init /\ registry_key = {}

SpecDid == InitOpen /\ [][NextDid]_vars

\* A deployment without REDIS_URL.
InitNoCache == Init /\ cacheCfg = "none" /\ registry_key = {}

\* The pattern store: A and B register, A is revoked, and both submit patterns.
NextPattern ==
    \/ RegisterNext({q \in RegisterRequests : q.did \in SigilDids /\ q.public_key = PK(1)})
    \/ \E r \in Slots : RevokeBegin(r, DidA)
    \/ PatternNext(PatternRequests)

SpecPattern == InitNoCache /\ [][NextPattern]_vars

\* Both entry stores: A registers, is revoked, and submits patterns and
\* policies, well-formed ones or ones with a field out of its allow-list.
NextSubmit ==
    \/ RegisterNext({[did |-> DidA, public_key |-> PK(1)]})
    \/ \E r \in Slots : RevokeBegin(r, DidA)
    \/ PatternNext({q \in PatternRequests : q.author_did = DidA})
    \/ PolicyNext(PolicyRequests)

SpecSubmit == InitNoCache /\ [][NextSubmit]_vars

\* The vote ledger, in a deployment whose database already holds identity A
\* (key pair 1), and one pattern and one policy submitted by A:
\* the state the register and submit handlers leave.
InitVote ==
    /\ cacheCfg = "none"
    /\ registry_key = {}
    /\ dids = {InsertedDid(DidA, PK(1))}
    /\ cache = {}
    /\ patterns = <<NewPatternRow(<<"leak1">>, {}, <<"secret">>, <<"foo">>, {}, <<"high">>, DidA)>>
    /\ policies = <<NewPolicyRow(<<"shell">>, <<"high">>, <<"High">>, FALSE, {}, DidA)>>
    /\ votes = {}
    /\ reqs = [r \in Slots |-> Idle]
    /\ resp = [op |-> "none", subject |-> <<>>, result |-> "none", body |-> NoBody, flags |-> {}]
    /\ revokeOks = [d \in SigilDids |-> 0]
    /\ voteLog = <<>>

NextVote == VoteNext(SigilDids, 1..1)

SpecVote == InitVote /\ [][NextVote]_vars

\* Every handler, in a deployment without REDIS_URL, on one identity: A
\* registers under either key, is resolved and revoked, submits one pattern
\* and one policy and votes up on each.
Next ==
    \/ \E r \in Slots : ResolveBegin(r, DidA)
    \/ RegisterNext({q \in RegisterRequests : q.did = DidA})
    \/ \E r \in Slots : RevokeBegin(r, DidA)
    \/ PatternNext({PatternRequest(<<"leak1">>, <<"secret">>, <<"foo">>, {}, DidA, 1, <<"leak1">>)})
    \/ PolicyNext({PolicyRequest(<<"shell">>, <<"high">>, <<"High">>, DidA, 1)})
    \/ \E r \in Slots, kind \in Kinds :
            VoteBegin(r, kind, 1, VoteRequest(DidA, kind, 1, <<"up">>, 1, <<"up">>))
    \/ \E r \in Slots : VoteCheckTarget(r)
    \/ \E r \in Slots : VoteInsert(r)
    \/ \E r \in Slots : VoteTally(r)

Spec == InitNoCache /\ [][Next]_vars

\* The cache of the identity directory, on one identity: A registers, is
\* resolved and revoked while time passes and the store may lose or garble
\* the entry.
NextCache ==
    \/ RegisterNext({[did |-> DidA, public_key |-> PK(1)]})
    \/ \E r \in Slots : ResolveBegin(r, DidA)
    \/ \E r \in Slots : ResolveDbRead(r)
    \/ \E r \in Slots : ResolveCacheSet(r)
    \/ RevokeNext({DidA})
    \/ ClockTick
    \/ CacheCorrupt(cache_key(DidA))

SpecCache == InitOpen /\ [][NextCache]_vars

\* The vote ledger when the database may fail the counter update of a vote.
NextVoteFault ==
    \/ NextVote
    \/ \E r \in Slots : VoteTallyFail(r)

SpecVoteFault == InitVote /\ [][NextVoteFault]_vars

\* The entry stores as the write path fills them, and the bundle read: A
\* registers, submits a pattern and a policy, votes the pattern up, and the
\* bundle is downloaded.
NextEntries ==
    \/ RegisterNext({[did |-> DidA, public_key |-> PK(1)]})
    \/ PatternNext({PatternRequest(<<"leak1">>, <<"secret">>, <<"foo">>, {}, DidA, 1, <<"leak1">>)})
    \/ PolicyNext({PolicyRequest(<<"shell">>, <<"high">>, <<"High">>, DidA, 1)})
    \/ \E r \in Slots :
            VoteBegin(r, "pattern", 1, VoteRequest(DidA, "pattern", 1, <<"up">>, 1, <<"up">>))
    \/ \E r \in Slots : VoteCheckTarget(r)
    \/ \E r \in Slots : VoteInsert(r)
    \/ \E r \in Slots : VoteTally(r)
    \/ \E r \in Slots : GetBundleSelect(r)
    \/ \E r \in Slots : GetBundleDownloads(r)

SpecEntries == InitNoCache /\ [][NextEntries]_vars

\* The write path next to the cache: A registers, is resolved and revoked
\* with a cache that is absent or available, and submits a pattern
\* and a policy and votes on pattern 1.
NextAuthCache ==
    \/ RegisterNext({[did |-> DidA, public_key |-> PK(1)]})
    \/ \E r \in Slots : ResolveBegin(r, DidA)
    \/ \E r \in Slots : ResolveDbRead(r)
    \/ \E r \in Slots : ResolveCacheSet(r)
    \/ RevokeNext({DidA})
    \/ PatternNext({PatternRequest(<<"leak1">>, <<"secret">>, <<"foo">>, {}, DidA, 1, <<"leak1">>)})
    \/ PolicyNext({PolicyRequest(<<"shell">>, <<"high">>, <<"High">>, DidA, 1)})
    \/ \E r \in Slots :
            VoteBegin(r, "pattern", 1, VoteRequest(DidA, "pattern", 1, <<"up">>, 1, <<"up">>))
    \/ \E r \in Slots : VoteCheckTarget(r)
    \/ \E r \in Slots : VoteInsert(r)
    \/ \E r \in Slots : VoteTally(r)

\* No cache, or an available one.
InitAuthCache == InitOpen /\ cacheCfg # "flaky"

SpecAuthCache == InitAuthCache /\ [][NextAuthCache]_vars

\* Registration, in a deployment without REDIS_URL, with REGISTRY_KEY set or
\* not.  register_did extracts the state and the JSON body only
\* (RegisterRequest: did, public_key, namespace, label): a request is its
\* body, and none carries a key value the handler could compare.
InitRegister == Init /\ cacheCfg = "none"

NextRegister == RegisterNext(RegisterRequests)

SpecRegister == InitRegister /\ [][NextRegister]_vars

\* The canonical message builders called on their own: any of the three,
\* on fields that are plain, empty, padded and capitalised, or contain the
\* delimiter, while the directory changes between calls.
MessageFields == {<<"leak1">>, <<>>, <<" ", "Leak1", " ">>, <<"a", ":", "b">>}

MessageCall(builder, f) ==
    /\ resp' = [op |-> builder, subject |-> f, result |-> "Ok",
                body |-> [message |-> CASE builder = "pattern_message"
                                            -> pattern_message(f[1], f[2], f[3], f[4])
                                        [] builder = "policy_message"
                                            -> policy_message(f[1], f[2], f[3], f[4])
                                        [] builder = "vote_message"
                                            -> vote_message(f[1], f[2], f[3], f[4])],
                flags |-> {}]
    /\ UNCHANGED <<cacheCfg, registry_key, dids, cache, patterns, policies, votes, reqs,
                   revokeOks, voteLog>>

NextMessage ==
    \/ \E builder \in {"pattern_message", "policy_message", "vote_message"},
          f \in MessageFields \X MessageFields \X MessageFields \X MessageFields :
            MessageCall(builder, f)
    \/ RegisterNext({[did |-> DidA, public_key |-> PK(1)]})

SpecMessage == InitNoCache /\ [][NextMessage]_vars

\* verify_signature called on its own.  Keys: the two key pairs' public
\* keys, and texts that are not base64url, not 32 bytes, or no curve point.
\* Signatures: those either key pair produces over each message, 64 bytes
\* that no key pair produced (by = 0), and texts that are not base64url or
\* not 64 bytes.
VerifyKeys ==
    {PK(1), PK(2)} \cup {[form |-> f, id |-> 1] : f \in {"badb64", "badlen", "offcurve"}}

VerifyMessages ==
    {pattern_message(<<"leak1">>, <<"secret">>, <<"foo">>, DidA),
     pattern_message(<<"leak2">>, <<"secret">>, <<"foo">>, DidA),
     vote_message(<<"pattern">>, <<"1">>, <<"up">>, DidA)}

VerifySignatures ==
    {Sign(n, m) : n \in {1, 2}, m \in VerifyMessages}
        \cup {[form |-> "valid", by |-> 0, over |-> m] : m \in VerifyMessages}
        \cup {[form |-> f, by |-> 1, over |-> m] : f \in {"badb64", "badlen"}, m \in VerifyMessages}

VerifyCall(public_key, message, signature) ==
    /\ resp' = [op |-> "verify_signature", subject |-> <<public_key, message, signature>>,
                result |-> verify_signature(public_key, message, signature),
                body |-> NoBody, flags |-> {}]
    /\ UNCHANGED <<cacheCfg, registry_key, dids, cache, patterns, policies, votes, reqs,
                   revokeOks, voteLog>>

NextVerify ==
    \E public_key \in VerifyKeys, message \in VerifyMessages, signature \in VerifySignatures :
        VerifyCall(public_key, message, signature)

SpecVerify == InitNoCache /\ [][NextVerify]_vars

\* The vote ledger next to every other handler, in a deployment without
\* REDIS_URL: A registers, is resolved and revoked, submits one pattern and
\* one policy, and votes up and down on the pattern.
NextLedger ==
    \/ \E r \in Slots : ResolveBegin(r, DidA)
    \/ RegisterNext({[did |-> DidA, public_key |-> PK(1)]})
    \/ \E r \in Slots : RevokeBegin(r, DidA)
    \/ PatternNext({PatternRequest(<<"leak1">>, <<"secret">>, <<"foo">>, {}, DidA, 1, <<"leak1">>)})
    \/ PolicyNext({PolicyRequest(<<"shell">>, <<"high">>, <<"High">>, DidA, 1)})
    \/ \E r \in Slots, vote \in {<<"up">>, <<"down">>} :
            VoteBegin(r, "pattern", 1, VoteRequest(DidA, "pattern", 1, vote, 1, vote))
    \/ \E r \in Slots : VoteCheckTarget(r)
    \/ \E r \in Slots : VoteInsert(r)
    \/ \E r \in Slots : VoteTally(r)

SpecLedger == InitNoCache /\ [][NextLedger]_vars

\* The health check next to the directory, the cache, the entry stores and
\* the ledger.
NextHealth ==
    \/ Health
    \/ NextAuthCache

SpecHealth == InitAuthCache /\ [][NextHealth]_vars

\* The checks of a vote, in a deployment whose database holds identity A,
\* one pattern and one policy: A and the unregistered B vote on pattern 1
\* and on pattern 2, which does not exist, with every kind of request.
NextVoteOrder ==
    \/ \E r \in Slots, id \in 1..2 :
            \E q \in VoteRequests(SigilDids, "pattern", id) : VoteBegin(r, "pattern", id, q)
    \/ \E r \in Slots : VoteCheckTarget(r)
    \/ \E r \in Slots : VoteInsert(r)
    \/ \E r \in Slots : VoteTally(r)

SpecVoteOrder == InitVote /\ [][NextVoteOrder]_vars

\* The life of a cache entry under resolve_did and revoke_did alone: A
\* registers, is resolved and revoked while time passes; nothing but the
\* two handlers and the expiry touches the store.
NextCacheLife ==
    \/ RegisterNext({[did |-> DidA, public_key |-> PK(1)]})
    \/ \E r \in Slots : ResolveBegin(r, DidA)
    \/ \E r \in Slots : ResolveDbRead(r)
    \/ \E r \in Slots : ResolveCacheSet(r)
    \/ RevokeNext({DidA})
    \/ ClockTick

SpecCacheLife == InitOpen /\ [][NextCacheLife]_vars

\* verify_signature behind the submit and vote handlers, in a deployment without REDIS_URL: A registers under any key text, well-formed
\* or not (register_did does not look at the key), and submits a pattern
\* and a policy and votes on pattern 1 with any signature text, one request
\* after the other.
SignatureTexts(m) ==
    {Sign(1, m), Sign(2, m)} \cup {[form |-> f, by |-> 1, over |-> m] : f \in {"badb64", "badlen"}}

BoundaryPatternRequests ==
    {[PatternRequest(<<"leak1">>, <<"secret">>, <<"foo">>, {}, DidA, 1, <<"leak1">>)
        EXCEPT !.signature = s] :
        s \in SignatureTexts(pattern_message(<<"leak1">>, <<"secret">>, <<"foo">>, DidA))}

BoundaryPolicyRequests ==
    {[PolicyRequest(<<"shell">>, <<"high">>, <<"High">>, DidA, 1) EXCEPT !.signature = s] :
        s \in SignatureTexts(policy_message(<<"shell">>, <<"high">>, <<"High">>, DidA))}

BoundaryVoteRequests ==
    {[VoteRequest(DidA, "pattern", 1, <<"up">>, 1, <<"up">>) EXCEPT !.signature = s] :
        s \in SignatureTexts(vote_message(<<"pattern">>, IdString(1), <<"up">>, DidA))}

NextVerifyBoundary ==
    \/ \E k \in VerifyKeys : RegisterBegin(1, DidA, k)
    \/ RegisterInsert(1)
    \/ \E q \in BoundaryPatternRequests : CreatePatternBegin(1, q)
    \/ CreatePatternDupCheck(1)
    \/ CreatePatternInsert(1)
    \/ \E q \in BoundaryPolicyRequests : CreatePolicyBegin(1, q)
    \/ CreatePolicyInsert(1)
    \/ \E q \in BoundaryVoteRequests : VoteBegin(1, "pattern", 1, q)
    \/ VoteCheckTarget(1)
    \/ VoteInsert(1)
    \/ VoteTally(1)

SpecVerifyBoundary == InitNoCache /\ [][NextVerifyBoundary]_vars

\* ------------------------------------------------------------------ list_patterns, list_policies

\* The default and the ceiling of the page size (q.limit.unwrap_or(50).min(200)).
ListLimitDefault == 50
ListLimitMax == 200

\* A page size the request passes straight to the query.
ListLimitUnclamped(requested) ==
    IF requested = {} THEN ListLimitDefault ELSE CHOOSE x \in requested : TRUE

\* q.limit.unwrap_or(50).min(200): i64::min of the requested value and 200.
ListLimit(requested) ==
    LET asked == IF requested = {} THEN ListLimitDefault ELSE CHOOSE x \in requested : TRUE
    IN  IF asked < ListLimitMax THEN asked ELSE ListLimitMax

\* q.offset.unwrap_or(0).
ListOffset(requested) ==
    IF requested = {} THEN 0 ELSE CHOOSE x \in requested : TRUE

\* SELECT ... LIMIT limit OFFSET offset over a table with `matching` rows
\* that pass the WHERE clause: the number of rows fetched.  PostgreSQL
\* rejects a negative LIMIT or OFFSET; the caller turns that into Database.
ListFetched(matching, limit, offset) ==
    LET left == IF matching > offset THEN matching - offset ELSE 0
    IN  IF left < limit THEN left ELSE limit

\* One list request.  The table is represented by the number of its active
\* rows that pass the request's filters, which is all the page size depends
\* on; the handler reads and writes nothing else.
List(op, q, matching) ==
    LET limit == ListLimit(q.limit)
        offset == ListOffset(q.offset)
    IN  /\ IF limit < 0 \/ offset < 0
              THEN Reply(op, <<q, matching>>, "Database", NoBody, {})
              ELSE Reply(op, <<q, matching>>, "Ok",
                         [count |-> ListFetched(matching, limit, offset), offset |-> offset,
                          limit |-> limit], {})
        /\ UNCHANGED <<cacheCfg, registry_key, dids, cache, patterns, policies, votes, reqs,
                       revokeOks, voteLog>>

\* Requested page sizes and offsets (Option<i64>): absent, negative, zero,
\* around the default, around the ceiling, and far beyond it.
ListLimits ==
    {{}} \cup {{x} : x \in {-2147483647, -1, 0, 1, 49, 50, 51, 199, 200, 201, 1000, 2147483647}}

ListOffsets == {{}} \cup {{x} : x \in {-1, 0, 1, 200}}

\* Sizes of the filtered table, up to more than two full pages.
ListMatching == {0, 1, 50, 51, 200, 201, 450}

NextList ==
    \E op \in {"list_patterns", "list_policies"}, limit \in ListLimits, offset \in ListOffsets,
       matching \in ListMatching :
        List(op, [limit |-> limit, offset |-> offset], matching)

SpecList == InitNoCache /\ [][NextList]_vars

\* The votes of one registered identity on the pattern and on the policy,
\* when the database may fail the counter update of a vote.
NextTallyFault ==
    \/ VoteNext({DidA}, 1..1)
    \/ \E r \in Slots : VoteTallyFail(r)

SpecTallyFault == InitVote /\ [][NextTallyFault]_vars

\* A signature replayed on other fields, in a deployment without REDIS_URL.
\* A signed one submission: name "a", category secret, expression "pii:b".
\* Every request below carries that signature; the fields are the signed
\* ones, ones that differ in a single field, and ones where the text
\* ":secret" has moved from in front of the expression to the end of the
\* name, with the category changed to the one the expression started with.
ReplaySigned ==
    PatternRequest(<<"a">>, <<"secret">>, <<"pii", ":", "b">>, {}, DidA, 1, <<"a">>)

ReplayRequests ==
    {[name |-> f[1], description |-> {}, category |-> f[2], pattern |-> f[3],
      replacement_hint |-> {}, severity |-> {}, author_did |-> DidA,
      signature |-> ReplaySigned.signature] :
        f \in {<<<<"a">>, <<"secret">>, <<"pii", ":", "b">>>>,
               <<<<"b">>, <<"secret">>, <<"pii", ":", "b">>>>,
               <<<<"a">>, <<"pii">>, <<"pii", ":", "b">>>>,
               <<<<"a">>, <<"secret">>, <<"b">>>>,
               <<<<"a", ":", "secret">>, <<"pii">>, <<"b">>>>}}

NextReplay ==
    \/ RegisterNext({[did |-> DidA, public_key |-> PK(1)]})
    \/ PatternNext(ReplayRequests)

SpecReplay == InitNoCache /\ [][NextReplay]_vars

\* The canonical messages compared pairwise.  The first message of a pair
\* is the vote message of a request the vote handlers accept up to their
\* signature check: the kind is the handler's literal, the id is the text
\* of the path's Uuid, the direction is up or down, and the voter is a DID
\* register_did accepts, among them ones that end in or contain a
\* direction.  The second is another such vote message, or the pattern or
\* policy message of any four texts.
AcceptedVoteFields ==
    {<<<<kind>>, IdString(id), vote, voter_did>> :
        kind \in Kinds, id \in 1..2, vote \in {<<"up">>, <<"down">>},
        voter_did \in {DidA, DidA \o <<":", "up">>,
                       <<"did", ":", "sigil", ":", "up", ":">> \o DidA}}

SubmissionTexts ==
    {<<"vote">>, <<"pattern">>, <<"vote", ":", "pattern", ":", "1">>}

MessageOf(builder, f) ==
    CASE builder = "pattern_message" -> pattern_message(f[1], f[2], f[3], f[4])
      [] builder = "policy_message" -> policy_message(f[1], f[2], f[3], f[4])
      [] builder = "vote_message" -> vote_message(f[1], f[2], f[3], f[4])

MessagePair(builder, f, g) ==
    /\ resp' = [op |-> "message_pair", subject |-> <<f, builder, g>>, result |-> "Ok",
                body |-> [first |-> MessageOf("vote_message", f),
                          second |-> MessageOf(builder, g)],
                flags |-> {}]
    /\ UNCHANGED <<cacheCfg, registry_key, dids, cache, patterns, policies, votes, reqs,
                   revokeOks, voteLog>>

NextMessagePair ==
    \/ \E f \in AcceptedVoteFields, g \in AcceptedVoteFields : MessagePair("vote_message", f, g)
    \/ \E f \in AcceptedVoteFields, builder \in {"pattern_message", "policy_message"},
          g \in SubmissionTexts \X {<<"pattern">>, <<"1">>} \X {<<"up">>, <<"1", ":", "up">>}
                   \X {DidA} :
            MessagePair(builder, f, g)

SpecMessagePair == InitNoCache /\ [][NextMessagePair]_vars

\* Submissions that agree on the signed fields and differ in the others, in
\* a deployment without REDIS_URL: A registers under key pair 1; the
\* submissions of one pattern and of one policy by A are signed by key pair
\* 1 or 2 and carry any of several descriptions, hints, severities,
\* confirmation flags and rationales, one request after the other.
UnsignedPatternRequests ==
    {[PatternRequest(<<"leak1">>, <<"secret">>, <<"foo">>, severity, DidA, signer, <<"leak1">>)
        EXCEPT !.description = text[1], !.replacement_hint = text[2]] :
        severity \in {{}, {<<"low">>}}, signer \in {1, 2},
        text \in {<<{}, {}>>, <<{<<"finds leaks">>}, {<<"[X]">>}>>}}

UnsignedPolicyRequests ==
    {[PolicyRequest(<<"shell">>, <<"high">>, <<"High">>, DidA, signer)
        EXCEPT !.requires_confirmation = free[1], !.rationale = free[2]] :
        signer \in {1, 2},
        free \in {<<{}, {}>>, <<{TRUE}, {<<"runs commands">>}>>, <<{FALSE}, {}>>}}

NextUnsigned ==
    \/ RegisterBegin(1, DidA, PK(1))
    \/ RegisterInsert(1)
    \/ \E q \in UnsignedPatternRequests : CreatePatternBegin(1, q)
    \/ CreatePatternDupCheck(1)
    \/ CreatePatternInsert(1)
    \/ \E q \in UnsignedPolicyRequests : CreatePolicyBegin(1, q)
    \/ CreatePolicyInsert(1)

SpecUnsigned == InitNoCache /\ [][NextUnsigned]_vars

\* One policy submitted again and again, in a deployment without REDIS_URL:
\* A and B register under key pair 1 and stay active; the create_policy
\* requests are those of PolicyRequests, among them the same fields by A
\* signed by key pair 1 any number of times.
NextPolicyRepeat ==
    \/ RegisterNext({[did |-> d, public_key |-> PK(1)] : d \in SigilDids})
    \/ PolicyNext(PolicyRequests)

SpecPolicyRepeat == InitNoCache /\ [][NextPolicyRepeat]_vars

\* ------------------------------------------------------------------ claims: identity directory and cache

C3_ResolveAfterRevoke ==
    (/\ cacheCfg = "up"
     /\ resp.op = "resolve_did"
     /\ "afterRevoke" \in resp.flags)
        => (resp.result = "Ok" /\ resp.body.status = "revoked")

Revoking(did) == {q \in Slots : reqs[q].op = "revoke_did" /\ reqs[q].did = did}

\* C4: of all revoke_did calls on one identity at most one succeeds, and
\* exactly one does once the identity was active (the call whose update
\* changed the record either has returned success or is about to); a call
\* that finds no active record returns NotFound and changes no record.
C4_RevokeOnce ==
    /\ [](\A did \in SigilDids :
            revokeOks[did] + Cardinality(Revoking(did))
                = IF \E row \in dids : row.did = did /\ row.status = "revoked" THEN 1 ELSE 0)
    /\ [][\A r \in Slots, did \in SigilDids :
            (RevokeBegin(r, did) /\ ~\E row \in dids : row.did = did /\ row.status = "active")
                => /\ resp'.op = "revoke_did" /\ resp'.result = "NotFound"
                   /\ reqs'[r] = Idle
                   /\ dids' = dids /\ revokeOks' = revokeOks]_vars

C4_Witness ==
    /\ revokeOks[DidA] = 1
    /\ resp.op = "revoke_did" /\ resp.subject = DidA /\ resp.result = "NotFound"

\* C6: register_did returns Conflict whenever a record with the requested
\* identity exists, active or revoked, and leaves the directory as it was;
\* a revoked record stays as it is ever after, so every later register_did of
\* its identity finds it.
C6_RegisterConflict ==
    /\ [][\A r \in Slots, q \in RegisterRequests :
            (RegisterBegin(r, q.did, q.public_key) /\ \E row \in dids : row.did = q.did)
                => /\ resp'.op = "register_did" /\ resp'.result = "Conflict"
                   /\ reqs'[r] = Idle
                   /\ dids' = dids]_vars
    /\ [][\A row \in dids : row.status = "revoked" => row \in dids']_vars

C6_Witness ==
    /\ resp.op = "register_did" /\ resp.subject = DidA /\ resp.result = "Conflict"
    /\ \E row \in dids : row.did = DidA /\ row.status = "revoked"

\* C7: a directory record, once registered, is never removed, keeps its
\* public key, and its status only moves from active to revoked, over every
\* step of register_did, revoke_did, resolve_did, the submissions and the votes.
C7_RecordLifecycle ==
    /\ [][\A row \in dids : \E next \in dids' :
            /\ next.did = row.did
            /\ next.public_key = row.public_key
            /\ next.status \in {row.status, "revoked"}
            /\ (row.status = "revoked" => next = row)]_vars
    /\ [](\A row \in dids : row.status \in {"active", "revoked"})

\* A was registered under key 1, has authored a pattern and voted on it, was
\* revoked, and a register_did of A under key 2 has returned Conflict.
C7_Witness ==
    /\ dids = {[InsertedDid(DidA, PK(1)) EXCEPT !.status = "revoked", !.revoked_at = "set"]}
    /\ Len(patterns) = 1 /\ patterns[1].votes_up = 1
    /\ resp.op = "register_did" /\ resp.subject = DidA /\ resp.result = "Conflict"

\* C8: a directory record has revoked_at set if and only if its status is revoked.
C8_RevokedAtIff ==
    \A row \in dids : (row.revoked_at = "set") <=> (row.status = "revoked")

C8_Witness ==
    /\ \E row \in dids : row.status = "revoked" /\ row.revoked_at = "set"
    /\ \E row \in dids : row.status = "active" /\ row.revoked_at = "null"

\* ------------------------------------------------------------------ claims: vote ledger

Tallying(t) == {q \in Voting(t) : reqs[q].pc = "tally"}

\* C1: of the vote requests that pass authentication and reach the ledger
\* insert for one (voter, kind, id), in any mix of directions and under every
\* interleaving, exactly one returns Ok and every other one AlreadyVoted, and
\* exactly one ledger row for the triple exists: at every moment each ledger
\* row belongs to one request that has returned Ok or is about to, every
\* other request that ran the insert has returned AlreadyVoted, and once
\* none is in flight any more there is one Ok and one row.
C1_OneVotePerTriple ==
    \A t \in Triples :
        LET rows == Cardinality(VoteRows(t[1], t[2], t[3])) IN
        /\ rows <= 1
        /\ VoteLogOf(t).ok + Cardinality(Tallying(t)) = rows
        /\ VoteLogOf(t).ins = VoteLogOf(t).ok + VoteLogOf(t).dup + Cardinality(Tallying(t))
        /\ (Voting(t) = {} /\ VoteLogOf(t).ins >= 1) =>
                (VoteLogOf(t).ok = 1 /\ VoteLogOf(t).dup = VoteLogOf(t).ins - 1 /\ rows = 1)

\* Two requests of opposite directions race on one triple: the down-vote has
\* lost and returned AlreadyVoted while the up-vote, whose row the ledger
\* holds, has yet to run its counter update.
C1_Witness ==
    \E t \in Triples :
        /\ VoteLogOf(t) = [ins |-> 2, ok |-> 0, dup |-> 1]
        /\ \E q \in Tallying(t) : reqs[q].vote = <<"up">>
        /\ \E v \in VoteRows(t[1], t[2], t[3]) : v.vote = <<"up">>
        /\ resp.op = "vote" /\ resp.subject = t[1] /\ resp.result = "AlreadyVoted"
        /\ {t[2], "down"} \subseteq resp.flags

TargetVotes(kind, id, vote) ==
    {v \in votes : v.target_type = kind /\ v.target_id = id /\ v.vote = vote}

TallyingOn(kind, id, vote) ==
    {q \in Slots : /\ reqs[q].op = "vote" /\ reqs[q].pc = "tally"
                   /\ reqs[q].kind = kind /\ reqs[q].id = id /\ reqs[q].vote = vote}

\* C9: a vote request that ends in AlreadyVoted changes no ledger row and no
\* tally; each tally of an entry therefore counts the ledger rows of its
\* direction (less the ones whose request has yet to run its counter update),
\* so a second up-vote of the same voter leaves the up-tally at 1.
C9_AlreadyVotedNoChange ==
    /\ [][\A r \in Slots :
            (/\ reqs[r].op = "vote" /\ reqs'[r] = Idle
             /\ resp'.op = "vote" /\ resp'.result = "AlreadyVoted")
            => (votes' = votes /\ patterns' = patterns /\ policies' = policies)]_vars
    /\ [](\A kind \in Kinds : \A id \in 1..Len(Table(kind)) :
            /\ Table(kind)[id].votes_up + Cardinality(TallyingOn(kind, id, <<"up">>))
                    = Cardinality(TargetVotes(kind, id, <<"up">>))
            /\ Table(kind)[id].votes_down + Cardinality(TallyingOn(kind, id, <<"down">>))
                    = Cardinality(TargetVotes(kind, id, <<"down">>)))

\* The same voter voted up twice on pattern 1: the second request has returned
\* AlreadyVoted and the up-tally is 1.
C9_Witness ==
    /\ resp.op = "vote" /\ resp.subject = DidA /\ resp.result = "AlreadyVoted"
    /\ {"pattern", "up"} \subseteq resp.flags
    /\ VoteLogOf(<<DidA, "pattern", 1>>) = [ins |-> 2, ok |-> 1, dup |-> 1]
    /\ patterns[1].votes_up = 1 /\ patterns[1].votes_down = 0
    /\ \A r \in Slots : reqs[r] = Idle

\* ------------------------------------------------------------------ claims: submissions

Creates == {"create_pattern", "create_policy"}

PatternFieldsValid(q) ==
    /\ q.category \in valid_categories
    /\ unwrap_or(q.severity, <<"high">>) \in valid_severities
    /\ RegexCompiles(q.pattern)

PolicyFieldsValid(q) ==
    /\ q.risk_level \in valid_risks
    /\ q.requires_trust \in valid_trusts
    /\ ~TrimIsEmpty(q.tool_name)

\* C5 as stated: every create_pattern or create_policy request that names A
\* as author and starts after revoke_did(A) has returned success returns
\* UnknownAuthor.
C5_AsStated ==
    (resp.op \in Creates /\ "afterRevoke" \in resp.flags) => resp.result = "UnknownAuthor"

\* C5, amended: such a request returns Validation when one of its fields fails
\* validation and UnknownAuthor otherwise, whatever its signature; it returns
\* at once, without reaching signature verification, and inserts no entry.
C5_Amended ==
    /\ []((resp.op \in Creates /\ "afterRevoke" \in resp.flags)
            => resp.result \in {"Validation", "UnknownAuthor"})
    /\ [][\A r \in Slots, q \in PatternRequests :
            (revokeOks[q.author_did] > 0 /\ CreatePatternBegin(r, q))
            => /\ reqs'[r] = Idle /\ patterns' = patterns /\ policies' = policies
               /\ resp'.op = "create_pattern" /\ resp'.subject = q.author_did
               /\ resp'.result = IF PatternFieldsValid(q) THEN "UnknownAuthor" ELSE "Validation"]_vars
    /\ [][\A r \in Slots, q \in PolicyRequests :
            (revokeOks[q.author_did] > 0 /\ CreatePolicyBegin(r, q))
            => /\ reqs'[r] = Idle /\ patterns' = patterns /\ policies' = policies
               /\ resp'.op = "create_policy" /\ resp'.subject = q.author_did
               /\ resp'.result = IF PolicyFieldsValid(q) THEN "UnknownAuthor" ELSE "Validation"]_vars

\* A authored a pattern while active; a submission naming A that started
\* after the revoke of A has returned UnknownAuthor.
C5_Witness ==
    /\ \E i \in 1..Len(patterns) : patterns[i].author_did = DidA
    /\ resp.op = "create_pattern" /\ resp.subject = DidA /\ resp.result = "UnknownAuthor"
    /\ "afterRevoke" \in resp.flags

ErrorReply(r, q, result) ==
    /\ resp'.op = "create_pattern" /\ resp'.subject = q.author_did /\ resp'.result = result
    /\ reqs'[r] = Idle
    /\ patterns' = patterns

\* C10: create_pattern stops at the first failing check, in the order field
\* validation (Validation), active author (UnknownAuthor), signature
\* (InvalidSignature), active pattern of the same name (Duplicate), and the
\* stored patterns change only when a request returns Ok.
C10_CheckOrder ==
    /\ [][\A r \in Slots, q \in PatternRequests :
            CreatePatternBegin(r, q) =>
                IF ~PatternFieldsValid(q) THEN ErrorReply(r, q, "Validation")
                ELSE IF \A row \in dids : ~(row.did = q.author_did /\ row.status = "active")
                THEN ErrorReply(r, q, "UnknownAuthor")
                ELSE IF \E row \in dids :
                           /\ row.did = q.author_did
                           /\ ~(/\ row.public_key.form = "valid"
                                /\ q.signature.form = "valid"
                                /\ q.signature.by = row.public_key.id
                                /\ q.signature.over = pattern_message(q.name, q.category,
                                                                      q.pattern, q.author_did))
                THEN ErrorReply(r, q, "InvalidSignature")
                ELSE /\ reqs'[r].pc = "dup_check" /\ reqs'[r].name = q.name
                     /\ resp' = resp /\ patterns' = patterns]_vars
    /\ [][\A r \in Slots :
            CreatePatternDupCheck(r) =>
                IF \E i \in 1..Len(patterns) : patterns[i].name = reqs[r].name /\ patterns[i].active
                THEN /\ resp'.op = "create_pattern" /\ resp'.result = "Duplicate"
                     /\ reqs'[r] = Idle /\ patterns' = patterns
                ELSE /\ reqs'[r].pc = "insert" /\ resp' = resp /\ patterns' = patterns]_vars
    /\ [][patterns' # patterns =>
            /\ resp'.op = "create_pattern" /\ resp'.result = "Ok"
            /\ \E r \in Slots : reqs[r].op = "create_pattern" /\ reqs[r].pc = "insert"
                                 /\ reqs'[r] = Idle]_vars

\* A validly signed submission by an active author has returned Duplicate
\* against the stored pattern of its name.
C10_Witness ==
    /\ resp.op = "create_pattern" /\ resp.result = "Duplicate"
    /\ \E i \in 1..Len(patterns) : patterns[i].active /\ patterns[i].author_did = resp.subject

\* ------------------------------------------------------------------ claims: cache contents and degradation

\* C11: every entry resolve_did writes into the cache has status active and
\* no revocation time, and is the record a resolve_did request read from the
\* directory and carried to its cache write; no step writes an entry whose
\* status is revoked.
C11_CacheOnlyActive ==
    [][\A e \in cache' :
          (e.valid /\ e.age = 0 /\ e \notin cache)
              => /\ e.value.status = "active"
                 /\ e.value.revoked_at = "null"
                 /\ \E r \in Slots :
                       /\ reqs[r].op = "resolve_did" /\ reqs[r].pc = "cache_set"
                       /\ reqs'[r] = Idle
                       /\ e.key = cache_key(reqs[r].did)
                       /\ e.value = reqs[r].body]_vars

\* A resolve_did of A has written an entry; the record has been revoked
\* since, the delete failed and the entry is still there, with status active.
C11_Witness ==
    /\ cacheCfg = "flaky"
    /\ resp.op = "revoke_did" /\ resp.result = "Ok" /\ "delFailed" \in resp.flags
    /\ \E e \in CacheEntries(cache_key(DidA)) : e.valid /\ e.value.status = "active"
    /\ \A row \in DidRows(DidA) : row.status = "revoked"

\* C12: resolve_did answers Ok or NotFound, never an error of the cache.
\* Without a cache, after a cache read error, after a cached value that
\* cannot be deserialized and after a failed cache write alike, the request
\* reads the directory and answers NotFound when the directory has no record
\* of the identity and otherwise Ok with the record it read.
C12_NeverFailsOnCache ==
    [][/\ resp'.op = "resolve_did" => resp'.result \in {"Ok", "NotFound"}
       /\ \A r \in Slots :
            /\ (reqs[r].op = "resolve_did" /\ reqs[r].pc = "db_read" /\ reqs'[r] # reqs[r])
                  => IF \A row \in dids : row.did # reqs[r].did
                     THEN /\ reqs'[r] = Idle
                          /\ resp'.op = "resolve_did" /\ resp'.subject = reqs[r].did
                          /\ resp'.result = "NotFound"
                     ELSE \E row \in dids :
                            /\ row.did = reqs[r].did
                            /\ \/ /\ reqs'[r] = Idle
                                  /\ resp'.op = "resolve_did" /\ resp'.subject = reqs[r].did
                                  /\ resp'.result = "Ok"
                                  /\ resp'.body = [status |-> row.status,
                                                   public_key |-> row.public_key,
                                                   revoked_at |-> row.revoked_at]
                               \/ /\ reqs'[r].pc = "cache_set"
                                  /\ reqs'[r].body = [status |-> row.status,
                                                      public_key |-> row.public_key,
                                                      revoked_at |-> row.revoked_at]
            /\ (reqs[r].op = "resolve_did" /\ reqs[r].pc = "cache_set" /\ reqs'[r] # reqs[r])
                  => /\ reqs'[r] = Idle
                     /\ resp'.op = "resolve_did" /\ resp'.subject = reqs[r].did
                     /\ resp'.result = "Ok"
                     /\ resp'.body = reqs[r].body
       /\ (cacheCfg = "none" /\ reqs' = reqs /\ resp' # resp /\ resp'.op = "resolve_did")
            => IF \A row \in dids : row.did # resp'.subject
               THEN resp'.result = "NotFound"
               ELSE \E row \in dids :
                      /\ row.did = resp'.subject
                      /\ resp'.result = "Ok"
                      /\ resp'.body = [status |-> row.status,
                                       public_key |-> row.public_key,
                                       revoked_at |-> row.revoked_at]]_vars

\* A resolve_did of A found an entry it could not deserialize, read the
\* directory, failed to write the cache, and answered Ok with the record.
C12_Witness ==
    /\ resp.op = "resolve_did" /\ resp.subject = DidA
    /\ {"corrupt", "setError"} \subseteq resp.flags
    /\ resp.result = "Ok"
    /\ \E row \in DidRows(DidA) : resp.body = ResolveResponse(row)
    /\ \E e \in CacheEntries(cache_key(DidA)) : ~e.valid

\* C13: a revoke_did of an identity with an active record marks the record
\* revoked and returns Ok, with no cache, with a cache delete that succeeds
\* and with one that fails.  An entry of the cache is always younger than
\* DID_CACHE_TTL_SECS, and its age is never reset by a hit: an entry left
\* behind by a failed delete is gone DID_CACHE_TTL_SECS after it was written.
C13_RevokeDegrades ==
    [][/\ \A r \in Slots :
            /\ (reqs[r].op = "revoke_did" /\ reqs[r].pc = "cache_del" /\ reqs'[r] # reqs[r])
                  => /\ reqs'[r] = Idle
                     /\ resp'.op = "revoke_did" /\ resp'.subject = reqs[r].did
                     /\ resp'.result = "Ok"
                     /\ resp'.flags \cap {"delOk", "delFailed"} # {}
            /\ (reqs[r] = Idle /\ reqs'[r].op = "revoke_did")
                  => /\ cacheCfg # "none"
                     /\ \E row \in dids : row.did = reqs'[r].did /\ row.status = "active"
                     /\ \A row \in dids' : row.did = reqs'[r].did => row.status = "revoked"
       /\ (resp'.op = "revoke_did" /\ resp' # resp /\ reqs' = reqs)
            => IF \E row \in dids : row.did = resp'.subject /\ row.status = "active"
               THEN cacheCfg = "none" /\ resp'.result = "Ok"
               ELSE resp'.result = "NotFound"
       /\ (resp'.op = "revoke_did" /\ resp'.result = "Ok")
            => \A row \in dids' : row.did = resp'.subject => row.status = "revoked"
       /\ \A e \in cache' :
            /\ e.age < DID_CACHE_TTL_SECS
            /\ e.valid
                  => \/ \E x \in cache : x.key = e.key /\ x.value = e.value /\ x.age <= e.age
                     \/ /\ e.age = 0
                        /\ \E r \in Slots : reqs[r].op = "resolve_did" /\ reqs[r].pc = "cache_set"
                                              /\ reqs'[r] = Idle]_vars

\* The cache delete of a revoke_did of A failed; the next resolve_did, some
\* time later, was served the entry, which is still in the cache and has aged.
C13_Witness ==
    /\ resp.op = "resolve_did" /\ resp.subject = DidA
    /\ {"nextAfterRevoke", "delFailed"} \subseteq resp.flags
    /\ resp.result = "Ok" /\ resp.body.status = "active"
    /\ \A row \in DidRows(DidA) : row.status = "revoked"
    /\ \E e \in CacheEntries(cache_key(DidA)) : e.valid /\ e.value = resp.body /\ e.age > 0

\* C14: whenever no vote request is in flight, votes_up of every entry is the
\* number of its ledger rows with direction up and votes_down the number
\* with direction down.
C14_TallyMatchesLedger ==
    (\A q \in Slots : reqs[q].op # "vote")
        => \A kind \in Kinds : \A id \in 1..Len(Table(kind)) :
              /\ Table(kind)[id].votes_up = Cardinality(TargetVotes(kind, id, <<"up">>))
              /\ Table(kind)[id].votes_down = Cardinality(TargetVotes(kind, id, <<"down">>))

\* ------------------------------------------------------------------ claims: entries

\* C15: every entry create_pattern or create_policy stores has verified =
\* FALSE and active = TRUE, no step of a submission or a vote changes the
\* verified flag of an entry, and every get_bundle answers an empty bundle
\* while the stores hold only what submissions and votes put there.
C15_NeverVerifiedByWritePath ==
    [][/\ \A i \in 1..Len(patterns') :
            IF i <= Len(patterns)
            THEN patterns'[i].verified = patterns[i].verified
            ELSE ~patterns'[i].verified /\ patterns'[i].active
       /\ \A i \in 1..Len(policies') :
            IF i <= Len(policies)
            THEN policies'[i].verified = policies[i].verified
            ELSE ~policies'[i].verified /\ policies'[i].active
       /\ \A r \in Slots : reqs'[r].op = "get_bundle" => reqs'[r].rows = <<>>
       /\ resp'.op = "get_bundle"
            => resp'.result = "Ok" /\ resp'.body.count = 0 /\ resp'.body.patterns = <<>>]_vars

\* A pattern and a policy have been submitted, the pattern has been voted
\* up, and a get_bundle has answered an empty bundle.
C15_Witness ==
    /\ resp.op = "get_bundle" /\ resp.result = "Ok" /\ resp.body.patterns = <<>>
    /\ Len(patterns) >= 1 /\ patterns[1].votes_up = 1 /\ patterns[1].active
    /\ Len(policies) >= 1

WriteOps == {"create_pattern", "create_policy", "vote"}

Submitter(slot) == IF slot.op = "vote" THEN slot.voter_did ELSE slot.author_did

\* C16: no step of create_pattern, create_policy, vote_pattern or vote_policy
\* changes the cache, and whether the author or voter is accepted depends on
\* the directory alone: a request is answered UnknownAuthor exactly when the
\* directory has no active record of the identity, and goes on past
\* authentication only when it has one, whatever the cache holds and whether
\* or not a cache is configured.
C16_WritePathIgnoresCache ==
    [][/\ \A r \in Slots :
            /\ (reqs'[r] # reqs[r] /\ (reqs[r].op \in WriteOps \/ reqs'[r].op \in WriteOps))
                  => cache' = cache /\ cacheCfg' = cacheCfg
            /\ (reqs[r] = Idle /\ reqs'[r].op \in WriteOps)
                  => \E row \in dids : row.did = Submitter(reqs'[r]) /\ row.status = "active"
       /\ (reqs' = reqs /\ resp' # resp /\ resp'.op \in WriteOps)
            => /\ cache' = cache /\ cacheCfg' = cacheCfg
               /\ resp'.result = "UnknownAuthor"
                     <=> ~\E row \in dids : row.did = resp'.subject /\ row.status = "active"]_vars

\* The cache holds an active entry for A, written by a resolve_did that read
\* the record before the revoke, while the directory record of A is revoked,
\* and a create_pattern by A has been answered UnknownAuthor.
C16_Witness ==
    /\ \E e \in CacheEntries(cache_key(DidA)) : e.valid /\ e.value.status = "active"
    /\ \A row \in DidRows(DidA) : row.status = "revoked"
    /\ resp.op = "create_pattern" /\ resp.subject = DidA /\ resp.result = "UnknownAuthor"

\* ------------------------------------------------------------------ claims: registration key

\* C17: when a registry key is configured, a register_did request that does
\* not supply the matching value adds no record to the directory.
C17_KeyProtectsRegister ==
    [][registry_key # {} => dids' = dids]_vars

\* ------------------------------------------------------------------ claims: canonical messages and signatures

RECURSIVE JoinColon(_)
JoinColon(parts) ==
    IF Len(parts) = 1 THEN parts[1] ELSE parts[1] \o <<":">> \o JoinColon(Tail(parts))

MessageTag(builder) ==
    CASE builder = "pattern_message" -> <<"pattern">>
      [] builder = "policy_message" -> <<"policy">>
      [] builder = "vote_message" -> <<"vote">>

\* C18: the message pattern_message, policy_message or vote_message returns
\* is 'sigil-registry', the tag of the operation and the four arguments in
\* their order, joined by ':', each argument unchanged; it is determined by
\* the arguments alone, whatever was built before and whatever the directory
\* holds.
C18_CanonicalMessage ==
    resp.op \in {"pattern_message", "policy_message", "vote_message"}
        => resp.body.message =
              JoinColon(<<<<"sigil-registry">>, MessageTag(resp.op)>> \o resp.subject)

\* pattern_message on a padded, capitalised name and an expression that
\* contains the delimiter, with A registered.
C18_Witness ==
    /\ resp.op = "pattern_message"
    /\ resp.subject = <<<<" ", "Leak1", " ">>, <<"leak1">>, <<"a", ":", "b">>, <<>>>>
    /\ resp.body.message = <<"sigil-registry", ":", "pattern", ":", " ", "Leak1", " ", ":",
                             "leak1", ":", "a", ":", "b", ":">>
    /\ dids # {}

\* C19: verify_signature succeeds exactly on a well-formed public key, a
\* message and a well-formed signature that the key pair of that public key
\* produced over that very message; with another message, another key or
\* another signature it fails.
C19_VerifyExactTriple ==
    resp.op = "verify_signature"
        => LET public_key == resp.subject[1]
               message == resp.subject[2]
               signature == resp.subject[3]
           IN  (resp.result = "ok")
                  <=> /\ public_key.form = "valid" /\ signature.form = "valid"
                      /\ signature.by = public_key.id
                      /\ signature.over = message

\* A signature of key pair 1 over one message, verified with the public key
\* of key pair 1 against a message that differs in one field, has failed.
C19_Witness ==
    /\ resp.op = "verify_signature"
    /\ resp.subject[1] = PK(1)
    /\ resp.subject[2] = pattern_message(<<"leak2">>, <<"secret">>, <<"foo">>, DidA)
    /\ resp.subject[3] = Sign(1, pattern_message(<<"leak1">>, <<"secret">>, <<"foo">>, DidA))
    /\ resp.result = "signature verification failed"

\* ------------------------------------------------------------------ claims: ledger rows

\* C20: over every step of every handler each row of the vote ledger stays
\* in the ledger with its voter, target kind, target id and direction: the
\* ledger only grows.
C20_LedgerOnlyGrows ==
    [][votes \subseteq votes']_vars

\* A has voted up on pattern 1 and has then been revoked; a later down vote
\* on the same pattern by a request that passed authentication before the
\* revoke was answered AlreadyVoted, and the up row is still in the ledger.
C20_Witness ==
    /\ resp.op = "vote" /\ resp.result = "AlreadyVoted" /\ {"pattern", "down"} \subseteq resp.flags
    /\ \A row \in DidRows(DidA) : row.status = "revoked"
    /\ votes = {[voter_did |-> DidA, target_type |-> "pattern", target_id |-> 1,
                 vote |-> <<"up">>]}

\* ------------------------------------------------------------------ claims: health

\* C21: every health response is Ok with status 'ok' and service
\* 'sigil-registry', whatever the directory, the entry stores, the ledger and
\* the cache hold, and the step that answers it changes none of them and no
\* request in flight.
C21_HealthConstant ==
    [][(resp'.op = "health" /\ resp' # resp)
          => /\ resp'.result = "Ok"
             /\ resp'.body.status = "ok" /\ resp'.body.service = "sigil-registry"
             /\ UNCHANGED <<cacheCfg, dids, cache, patterns, policies, votes, reqs>>]_vars

\* health has answered with A revoked, a cache entry for A present, a
\* pattern stored and a vote in the ledger.
C21_Witness ==
    /\ resp.op = "health" /\ resp.body.status = "ok"
    /\ cacheCfg = "up" /\ cache # {}
    /\ \E row \in dids : row.status = "revoked"
    /\ Len(patterns) >= 1 /\ votes # {}

\* ------------------------------------------------------------------ claims: vote checks

VoteErrorReply(r, voter_did, result) ==
    /\ resp'.op = "vote" /\ resp'.subject = voter_did /\ resp'.result = result
    /\ reqs'[r] = Idle
    /\ votes' = votes /\ patterns' = patterns /\ policies' = policies

\* C22: a vote stops at the first failing check, in the order direction
\* (InvalidVote, before any identity lookup), active voter (UnknownAuthor),
\* signature (InvalidSignature), existing active target (ResourceNotFound),
\* no ledger row of the triple yet (AlreadyVoted); on each of these the
\* ledger and the tallies are unchanged.
C22_VoteCheckOrder ==
    /\ [][\A r \in Slots, id \in 1..2 : \A q \in VoteRequests(SigilDids, "pattern", id) :
            VoteBegin(r, "pattern", id, q) =>
                IF q.vote \notin {<<"up">>, <<"down">>}
                THEN VoteErrorReply(r, q.voter_did, "InvalidVote")
                ELSE IF \A row \in dids : ~(row.did = q.voter_did /\ row.status = "active")
                THEN VoteErrorReply(r, q.voter_did, "UnknownAuthor")
                ELSE IF \E row \in dids :
                           /\ row.did = q.voter_did
                           /\ ~(/\ row.public_key.form = "valid"
                                /\ q.signature.form = "valid"
                                /\ q.signature.by = row.public_key.id
                                /\ q.signature.over = vote_message(<<"pattern">>, IdString(id),
                                                                   q.vote, q.voter_did))
                THEN VoteErrorReply(r, q.voter_did, "InvalidSignature")
                ELSE /\ reqs'[r].pc = "check_target"
                     /\ resp' = resp
                     /\ votes' = votes /\ patterns' = patterns /\ policies' = policies]_vars
    /\ [][\A r \in Slots :
            (reqs[r].op = "vote" /\ reqs[r].pc = "check_target" /\ reqs'[r] # reqs[r])
                => IF ~(/\ reqs[r].id \in 1..Len(patterns)
                        /\ patterns[reqs[r].id].active)
                   THEN VoteErrorReply(r, reqs[r].voter_did, "ResourceNotFound")
                   ELSE /\ reqs'[r].pc = "insert" /\ resp' = resp
                        /\ votes' = votes /\ patterns' = patterns]_vars
    /\ [][\A r \in Slots :
            (reqs[r].op = "vote" /\ reqs[r].pc = "insert" /\ reqs'[r] # reqs[r])
                => IF \E v \in votes : /\ v.voter_did = reqs[r].voter_did
                                       /\ v.target_type = reqs[r].kind
                                       /\ v.target_id = reqs[r].id
                   THEN VoteErrorReply(r, reqs[r].voter_did, "AlreadyVoted")
                   ELSE reqs'[r].pc = "tally" /\ resp' = resp /\ patterns' = patterns]_vars

\* A validly signed up vote of A on pattern 2, which does not exist, has
\* been answered ResourceNotFound, after A's vote on pattern 1 was recorded.
C22_Witness ==
    /\ resp.op = "vote" /\ resp.subject = DidA /\ resp.result = "ResourceNotFound"
    /\ Len(patterns) = 1
    /\ votes # {} /\ patterns[1].votes_up + patterns[1].votes_down = 1

\* ------------------------------------------------------------------ claims: life of a cache entry

CacheWrite(r) ==
    /\ reqs[r].op = "resolve_did" /\ reqs[r].pc = "cache_set"
    /\ reqs'[r] = Idle
    /\ "setError" \notin resp'.flags

\* C23: the entry of an identity goes from absent to present only by the
\* cache write of a resolve_did that read an active record, and from present
\* to absent only by expiry or by the delete of a revoke_did; while it is
\* present it is never written again: no cache write of resolve_did finds an
\* entry under its key.
C23_EntryNeverRewritten ==
    [][LET key == cache_key(DidA)
           before == {e \in cache : e.key = key}
           after == {e \in cache' : e.key = key}
       IN
       /\ (before = {} /\ after # {})
            => /\ \E r \in Slots : CacheWrite(r) /\ reqs[r].body.status = "active"
               /\ \A e \in after : e.age = 0 /\ e.value.status = "active"
       /\ (before # {} /\ after = {})
            => \/ \E r \in Slots : reqs[r].op = "revoke_did" /\ reqs[r].pc = "cache_del"
                                    /\ reqs'[r] = Idle
               \/ reqs' = reqs /\ resp' = resp
       /\ (before # {} /\ after # {})
            => /\ \A r \in Slots : ~CacheWrite(r)
               /\ \A e \in after : \E x \in before : x.value = e.value /\ x.age <= e.age]_vars

\* ------------------------------------------------------------------ claims: duplicate names

SameNameRows(name) == {i \in 1..Len(patterns) : patterns[i].name = name /\ patterns[i].active}

\* C24: the table has no uniqueness constraint on the name, so an insert can
\* store a second active pattern of a name; it does so only when the other
\* pattern was stored after the request ran its duplicate check (the two
\* requests overlapped).  A request whose duplicate check runs after the
\* other pattern was stored, as every request run after the other does,
\* returns Duplicate and stores nothing.
C24_DuplicateOnlyByRace ==
    [][\A r \in Slots :
          /\ (reqs[r].op = "create_pattern" /\ reqs[r].pc = "dup_check" /\ reqs'[r] # reqs[r]
                /\ SameNameRows(reqs[r].name) # {})
                => /\ reqs'[r] = Idle
                   /\ resp'.op = "create_pattern" /\ resp'.result = "Duplicate"
                   /\ patterns' = patterns
          /\ (reqs[r].op = "create_pattern" /\ reqs[r].pc = "insert" /\ reqs'[r] # reqs[r])
                => /\ Len(patterns') = Len(patterns) + 1
                   /\ patterns'[Len(patterns')].name = reqs[r].name
                   /\ \A i \in SameNameRows(reqs[r].name) : i > reqs[r].seen]_vars

\* Two submissions of the name leak1 overlapped: both passed the duplicate
\* check and both inserted, and two active patterns of that name are stored.
C24_Witness ==
    /\ Len(patterns) = 2
    /\ patterns[1].name = <<"leak1">> /\ patterns[2].name = <<"leak1">>
    /\ patterns[1].active /\ patterns[2].active
    /\ resp.op = "create_pattern" /\ resp.result = "Ok"

\* ------------------------------------------------------------------ claims: verification failures

\* The class of a failure text of verify_signature.
FailureClass(reason) ==
    CASE reason \in {"bad public key encoding", "public key must be 32 bytes"} -> "MalformedKey"
      [] reason = "invalid public key" -> "InvalidKey"
      [] reason \in {"bad signature encoding", "signature must be 64 bytes"}
            -> "MalformedSignature"
      [] reason = "signature verification failed" -> "SignatureMismatch"
      [] OTHER -> reason

\* The class the order of checks dictates for a key, a message and a signature.
ExpectedClass(public_key, message, signature) ==
    IF public_key.form \in {"badb64", "badlen"} THEN "MalformedKey"
    ELSE IF public_key.form # "valid" THEN "InvalidKey"
    ELSE IF signature.form \in {"badb64", "badlen"} THEN "MalformedSignature"
    ELSE IF signature.by # public_key.id \/ signature.over # message THEN "SignatureMismatch"
    ELSE "ok"

BoundaryReply(op, q, message) ==
    \A row \in dids :
        (row.did = DidA /\ row.status = "active"
            /\ ExpectedClass(row.public_key, message, q.signature) # "ok")
            => /\ resp'.op = op /\ resp'.result = "InvalidSignature"
               /\ \E reason \in resp'.flags :
                     FailureClass(reason) = ExpectedClass(row.public_key, message, q.signature)
               /\ reqs' = reqs
               /\ UNCHANGED <<dids, patterns, policies, votes>>

\* C25: verify_signature fails as a malformed key when the key does not
\* decode to 32 bytes, whatever the signature; otherwise as an invalid key
\* when the key is no curve point; otherwise as a malformed signature when
\* the signature does not decode to 64 bytes; otherwise as a mismatch; and
\* it changes nothing.  create_pattern, create_policy and the vote handlers
\* answer each of these failures InvalidSignature with the reason attached.
C25_FailureClasses ==
    [][\A r \in Slots :
            /\ \A q \in BoundaryPatternRequests :
                  CreatePatternBegin(r, q) =>
                      BoundaryReply("create_pattern", q,
                                    pattern_message(q.name, q.category, q.pattern, q.author_did))
            /\ \A q \in BoundaryPolicyRequests :
                  CreatePolicyBegin(r, q) =>
                      BoundaryReply("create_policy", q,
                                    policy_message(q.tool_name, q.risk_level, q.requires_trust,
                                                   q.author_did))
            /\ \A q \in BoundaryVoteRequests :
                  VoteBegin(r, "pattern", 1, q) =>
                      BoundaryReply("vote", q,
                                    vote_message(<<"pattern">>, IdString(1), q.vote,
                                                 q.voter_did))]_vars

\* A registered under a key text that is no curve point and voted: the vote
\* was answered InvalidSignature with the reason of the key, the first check
\* to fail, whatever the signature text was.
C25_Witness ==
    /\ resp.op = "vote" /\ resp.result = "InvalidSignature"
    /\ "invalid public key" \in resp.flags
    /\ \E row \in dids : row.public_key.form = "offcurve"

\* ------------------------------------------------------------------ claims: pagination

\* C26: for every requested limit, present or absent, list_patterns and
\* list_policies query with the smaller of the requested limit and 200,
\* taking 50 for an absent limit, and no list response holds more than 200
\* entries or more than the limit queried with.
C26_LimitClamped ==
    \A op \in {"list_patterns", "list_policies"} :
        (resp.op = op /\ resp.result = "Ok") =>
            LET requested == resp.subject[1].limit
            IN  /\ requested = {} => resp.body.limit = 50
                /\ \A x \in requested :
                      /\ x <= 200 => resp.body.limit = x
                      /\ x >= 200 => resp.body.limit = 200
                /\ resp.body.limit <= 200
                /\ resp.body.count <= 200
                /\ resp.body.count <= resp.body.limit
                /\ resp.body.count <= resp.subject[2]

\* A list of 450 matching policies asked for with a limit far above the
\* ceiling: 200 entries came back.
C26_Witness ==
    /\ resp.op = "list_policies" /\ resp.result = "Ok"
    /\ resp.subject[1].limit = {2147483647} /\ resp.subject[2] = 450
    /\ resp.body.count = 200

\* ------------------------------------------------------------------ claims: tallies under failure

\* C27: in every state, with votes in flight or failed between the ledger
\* INSERT and the counter UPDATE, each tally of an entry is at least zero
\* and at most the number of ledger rows for the entry in that direction.
C27_TallyWithinLedger ==
    \A kind \in Kinds : \A id \in 1..Len(Table(kind)) :
        /\ Table(kind)[id].votes_up >= 0
        /\ Table(kind)[id].votes_down >= 0
        /\ Table(kind)[id].votes_up <= Cardinality(TargetVotes(kind, id, <<"up">>))
        /\ Table(kind)[id].votes_down <= Cardinality(TargetVotes(kind, id, <<"down">>))

\* A vote failed after its ledger row was stored and no vote is in flight:
\* an entry's up tally is below its number of up rows, and another vote
\* has been counted.
C27_Witness ==
    /\ \A q \in Slots : reqs[q].op # "vote"
    /\ \E kind \in Kinds : \E id \in 1..Len(Table(kind)) :
          Table(kind)[id].votes_up < Cardinality(TargetVotes(kind, id, <<"up">>))
    /\ \E kind \in Kinds : \E id \in 1..Len(Table(kind)) :
          Table(kind)[id].votes_up + Table(kind)[id].votes_down > 0

\* ------------------------------------------------------------------ claims: revocation and requests in flight

\* Identity did has a record and the record is revoked.
RevocationCommitted(did) ==
    \E row \in dids : row.did = did /\ row.status = "revoked"

\* C28: no entry row and no ledger row naming A as author or voter is
\* inserted once the revocation of A has committed in the directory,
\* whatever requests were in flight when revoke_did ran.
C28_NoInsertAfterRevoke ==
    [][RevocationCommitted(DidA) =>
          /\ \A i \in (Len(patterns) + 1)..Len(patterns') : patterns'[i].author_did # DidA
          /\ \A i \in (Len(policies) + 1)..Len(policies') : policies'[i].author_did # DidA
          /\ \A v \in votes' \ votes : v.voter_did # DidA]_vars

\* ------------------------------------------------------------------ claims: what a signature binds

\* C29: requests create_pattern accepts that differ in name, category,
\* pattern or author build different messages, so a signature made for one
\* submission's fields is accepted only with those fields: every pattern
\* stored under A's one signature has the fields A signed.
C29_SignatureBindsFields ==
    [][\A i \in (Len(patterns) + 1)..Len(patterns') :
          /\ patterns'[i].name = ReplaySigned.name
          /\ patterns'[i].category = ReplaySigned.category
          /\ patterns'[i].pattern = ReplaySigned.pattern
          /\ patterns'[i].author_did = ReplaySigned.author_did]_vars

\* ------------------------------------------------------------------ claims: vote messages

\* C30: two votes the handlers accept that differ in kind, target id,
\* direction or voter build different messages, and the message of a vote
\* is never the message of a pattern or of a policy.
C30_VoteMessageInjective ==
    resp.op = "message_pair" =>
        /\ (resp.subject[2] = "vote_message" /\ resp.subject[1] # resp.subject[3])
              => resp.body.first # resp.body.second
        /\ resp.subject[2] # "vote_message" => resp.body.first # resp.body.second

\* The up vote and the down vote of one voter on one pattern were compared,
\* and the up vote of A with the vote of the identity named A's DID
\* followed by ":up".
C30_Witness ==
    /\ resp.op = "message_pair" /\ resp.subject[2] = "vote_message"
    /\ resp.subject[1][1] = resp.subject[3][1] /\ resp.subject[1][2] = resp.subject[3][2]
    /\ \/ /\ resp.subject[1][4] = resp.subject[3][4]
          /\ resp.subject[1][3] = <<"up">> /\ resp.subject[3][3] = <<"down">>
       \/ /\ resp.subject[1][4] = DidA /\ resp.subject[3][4] = DidA \o <<":", "up">>
    /\ resp.body.first # resp.body.second

\* ------------------------------------------------------------------ claims: concurrent registration

\* C31: under every interleaving of register_did requests for one identity,
\* the directory holds at most one record of it, a request succeeds only by
\* storing the first record, with its own key, and every request for the
\* identity that does not succeed is answered Conflict.
C31_RegisterRace ==
    /\ [](\A did \in SigilDids : Cardinality(DidRows(did)) <= 1)
    /\ [][\A r \in Slots :
            (RegisterInsert(r) /\ resp'.result = "Ok")
                => /\ DidRows(reqs[r].did) = {}
                   /\ \A row \in dids' :
                         row.did = reqs[r].did => row.public_key = reqs[r].public_key]_vars
    /\ []((resp.op = "register_did" /\ resp.subject \in SigilDids)
            => resp.result \in {"Ok", "Conflict"})

\* ------------------------------------------------------------------ claims: fields outside the signature

\* The outcome of a submission's first step for an active author: the
\* verdict read from the signed message, the signature and the stored key
\* alone decides between InvalidSignature and going on.
VerdictDecides(r, op, author_did, message, signature) ==
    \A row \in dids :
        (row.did = author_did /\ row.status = "active") =>
            IF ExpectedClass(row.public_key, message, signature) = "ok"
            THEN reqs'[r].op = op /\ resp' = resp
            ELSE reqs'[r] = Idle /\ resp'.op = op /\ resp'.result = "InvalidSignature"

C33_PolicyPerAcceptedRequest ==
    /\ [](resp.op = "create_policy" => resp.result # "Duplicate")
    /\ [][\A r \in Slots :
            /\ \A k \in {1, 2} :
                  (/\ CreatePolicyBegin(r, PolicyRequest(<<"shell">>, <<"high">>, <<"High">>,
                                                         DidA, k))
                   /\ \E row \in dids : /\ row.did = DidA /\ row.status = "active"
                                        /\ row.public_key = PK(k))
                      => /\ reqs'[r].op = "create_policy" /\ reqs'[r].pc = "insert"
                         /\ policies' = policies
            /\ (reqs[r].op = "create_policy" /\ reqs[r].pc = "insert" /\ reqs'[r] = Idle)
                  => /\ Len(policies') = Len(policies) + 1
                     /\ \A i \in 1..Len(policies) : policies'[i] = policies[i]
                     /\ policies'[Len(policies')].tool_name = reqs[r].tool_name
                     /\ policies'[Len(policies')].author_did = reqs[r].author_did
                     /\ resp'.op = "create_policy" /\ resp'.result = "Ok"]_vars
    /\ [][Len(policies') # Len(policies)
            => \E r \in Slots : reqs[r].op = "create_policy" /\ reqs[r].pc = "insert"
                                 /\ reqs'[r] = Idle]_vars

\* Two policies with the same fields by the same author are stored, the
\* second by a request made when the first was already in the table.
C33_Witness ==
    /\ Len(policies) >= 2
    /\ policies[1] = policies[2]
    /\ resp.op = "create_policy" /\ resp.result = "Ok"
    /\ \A r \in Slots : reqs[r] = Idle

=============================================================================
